---- MODULE Spec2Model ----
(***************************************************************************)
(* Continuous-learning write path of SentinelRAG.                          *)
(*                                                                         *)
(*   src/src/agents/reflector.py       ReflectionAgent (write authority)   *)
(*   src/src/core/guidelines_manager.py GuidelinesManager (read cache)     *)
(*   src/src/core/embedding_manager.py  EmbeddingManager                   *)
(*                                                                         *)
(* Spec models the asyncio event loop: every action is one uninterrupted   *)
(* run of a coroutine between two suspension points, or one step of a      *)
(* default-executor worker thread, which runs in parallel with the loop.   *)
(* The semaphore and task semantics are those of CPython 3.11+ asyncio.    *)
(* PipelineSpec models _process alone, one event after another on the      *)
(* records of the store document, for what the pipeline does to the data.  *)
(***************************************************************************)
EXTENDS Integers, Sequences, FiniteSets, TLC

VARIABLES
    pc,          \* task -> position of the task's coroutine
    outcome,     \* task -> "none" | "ok" | "exc" | "cancelled"
    cancelReq,   \* task -> Task.cancel() was called and not yet delivered
    cbRan,       \* task -> the done-callback has run
    registry,    \* ReflectionAgent._background_tasks
    logs,        \* what the done-callbacks logged: <<task, "FAILED"|"cancelled">>
    semValue,    \* ReflectionAgent._semaphore._value
    semWaiters,  \* ReflectionAgent._semaphore._waiters (FIFO of tasks)
    semWoken,    \* waiters whose future has a result and who have not resumed
    ev,          \* task -> feedback_data of the event
    cand,        \* task -> GeneratedRule being processed, or NoCand
    base,        \* task -> current_data read in step 4, or NoDoc
    readFile,    \* task -> content of the store file when step 4 read it
    preFile,     \* task -> content of the store file when _atomic_write began
    newDoc,      \* task -> updated_data built by _atomic_write, or NoDoc
    wr,          \* task -> worker thread running _write
    rn,          \* task -> worker job running os.replace
    ld,          \* task -> worker job running GuidelinesManager._load
    reloadIssued,\* task -> force_reload() was called by the task
    tempFile,    \* content of GUIDELINES_PATH + ".temp", or Absent
    finalFile,   \* content of GUIDELINES_PATH, or Absent
    cacheLock,   \* GuidelinesManager._lock holder (0 = free)
    cacheRules,  \* GuidelinesManager._rules
    drainPc,     \* await_pending_tasks: "idle" | "waiting" | "cancelling" | "returned" | "raised"
    pending,     \* await_pending_tasks: the local list `pending`
    timedOut,    \* await_pending_tasks: the 15 s timeout fired
    embReady,    \* EmbeddingManager.is_ready
    now,         \* wall clock, in days
    store,       \* sequential pipeline: "rules" of the document at GUIDELINES_PATH
    run,         \* sequential pipeline: the _process call in progress or last finished
    served,      \* sequential pipeline: feedback events handed to _process so far
    gm,          \* read cache: the GuidelinesManager, its callers, threads and file
    sel,         \* rule selection: one get_relevant_rules computation
    mig,         \* start-up: one run of run_schema_migration
    txt          \* rule generation: one completion text and what was parsed

vars == <<pc, outcome, cancelReq, cbRan, registry, logs, semValue, semWaiters,
          semWoken, ev, cand, base, readFile, preFile, newDoc, wr, rn, ld,
          reloadIssued, tempFile, finalFile, cacheLock, cacheRules, drainPc,
          pending, timedOut, embReady, now, store, run, served, gm, sel, mig,
          txt>>

----------------------------------------------------------------------------
(* Bounds of the model *)

NTasks == 2          \* feedback events scheduled in one run
NChunks == 2         \* write() system calls one _write needs for a document

Tasks == 1..NTasks

----------------------------------------------------------------------------
(* Program constants *)

\* Faulty variant of SemaphoreInitial: the semaphore admits two holders.
SemaphoreOfTwo == 1 + 1

WordsMaxOffByOne == 150 + 1
AttemptsThree == 2 + 1

SemaphoreInitial == 1            \* asyncio.Semaphore(1)
WordsMin == 15                   \* validate_rule_length
WordsMax == 150
SummaryWordsMin == 5
SimilarityThreshold == 8200      \* EMBEDDING_SIMILARITY_THRESHOLD 0.82, ten-thousandths
JaccardThreshold == 55           \* overlap >= 0.55, hundredths
ReinforceIncrement == 80         \* + 0.08, thousandths
StaleDays == 30
StaleTriggerCount == 3
CapSmall == 30
CapLarge == 50
EmbDim == 2                      \* the model's vectors stand for 384 floats
MinQueryLen == 5                 \* Config.learning.REFLECTION_MIN_QUERY_LEN
MinResponseLen == 5              \* Config.learning.REFLECTION_MIN_RESPONSE_LEN
MinConfidence == 500             \* Config.learning.REFLECTION_MIN_CONFIDENCE, thousandths
ModelSize == "4B"                \* detect_model_size(PRIMARY_OLLAMA_MODEL)

----------------------------------------------------------------------------
(* Generic helpers *)

Min(S) == CHOOSE x \in S : \A y \in S : x <= y

----------------------------------------------------------------------------
(* Texts, tokens and embeddings *)

\* A text is the sequence of the words str.split() yields.
TextA == <<"Always", "answer", "in", "hindi", "when", "the", "user", "asks",
           "in", "hindi", "and", "never", "mix", "english", "phrases">>
TextB == <<"When", "citing", "sources", "ensure", "each", "claim", "names",
           "its", "document", "page", "number", "before", "giving", "any",
           "summary">>
\* a paraphrase of TextA: few shared words, nearly the same meaning
TextA2 == <<"reply", "using", "hindi", "script", "whenever", "the", "person",
            "writes", "their", "question", "in", "hindi", "without",
            "english", "words">>
\* a text whose embedding lies exactly on the similarity threshold to TextA
TextA3 == <<"prefer", "hindi", "replies", "for", "people", "who", "write",
            "hindi", "but", "keep", "technical", "terms", "as", "they",
            "appear">>

\* a text of n words
WordsText(n) == [i \in 1..n |-> "word"]

\* the text of record i of a store that earlier runs left behind; the texts
\* share no word with each other or with the candidates
LegacyText(i) == [k \in 1..WordsMin |-> ToString(100 * i + k)]

\* str.lower() on the words of the model's vocabulary
Lower(w) ==
    CASE w = "Always" -> "always"
      [] w = "When"   -> "when"
      [] w = "Avoid"  -> "avoid"
      [] w = "Hindi"  -> "hindi"
      [] OTHER        -> w

STOPWORDS ==
    {"a", "an", "the", "is", "are", "was", "were", "be", "been", "being",
     "have", "has", "had", "do", "does", "did", "will", "would", "could",
     "should", "may", "might", "must", "can", "to", "of", "in", "for",
     "on", "with", "at", "by", "from", "as", "it", "its", "that", "this",
     "and", "or", "but", "not", "no", "so", "if", "when", "then", "than"}

\* set(text.lower().split()) - STOPWORDS
TokenSet(text) == {Lower(text[i]) : i \in DOMAIN text} \ STOPWORDS

NoEmb == <<>>       \* encode() returned None / "embedding": []

\* SentenceTransformer output for the model's texts: unit vectors in
\* hundredths, so that a dot product is in ten-thousandths.
EmbeddingOf(text) ==
    CASE text = TextA -> <<100, 0>>
      [] text = TextB -> <<50, 87>>
      [] text = TextA2 -> <<90, 44>>
      [] text = TextA3 -> <<82, 57>>
      [] OTHER        -> <<0, 100>>

\* EmbeddingManager.encode: the vector, or None when not ready
Encode(text, ready) == IF ready THEN EmbeddingOf(text) ELSE NoEmb

RECURSIVE Dot(_, _)
Dot(a, b) ==
    IF a = <<>> \/ b = <<>> THEN 0
    ELSE Head(a) * Head(b) + Dot(Tail(a), Tail(b))

\* EmbeddingManager.cosine_similarity, in ten-thousandths, clamped to [-1, 1]
CosineSimilarity(a, b) ==
    LET d == Dot(a, b)
    IN  IF d > 10000 THEN 10000 ELSE IF d < -10000 THEN -10000 ELSE d

----------------------------------------------------------------------------
(* Rule records and the store document *)

NoId == 0
NoCand == [none |-> TRUE]
NoDoc == [none |-> TRUE]

\* the _process call of the sequential pipeline before it started
NoRun == [phase |-> "idle", result |-> "none", got |-> << >>, cand |-> NoCand,
          path |-> "none", dup |-> NoId, mid |-> << >>, ev |-> [none |-> TRUE],
          did |-> {}]

\* {"schema_version": "2.0", "rules": []}: what _read_guidelines_raw returns
\* for a missing or unreadable store
FallbackDoc == [schema_version |-> "2.0", rules |-> <<>>]

\* the store after start-up: run_schema_migration leaves an empty v2 document
InitDoc == [schema_version |-> "2.0", last_updated |-> 0, rules |-> << >>]

IsActive(r) == r.status = "active"

ActiveIdx(rules) == {i \in DOMAIN rules : IsActive(rules[i])}

ActiveCount(rules) == Cardinality(ActiveIdx(rules))

\* GeneratedRule.validate_rule_length and the ge/le bounds of confidence_in_rule
SchemaValid(g) ==
    /\ Len(g.rule) >= WordsMin
    /\ Len(g.rule) <= WordsMax
    /\ g.confidence_in_rule >= 100
    /\ g.confidence_in_rule <= 1000

\* _process step 3
PostGenValid(g) ==
    /\ ~ (g.confidence_in_rule < MinConfidence)
    /\ (WordsMin <= Len(g.rule) /\ Len(g.rule) <= WordsMax)
    /\ ~ (g.summary_words < SummaryWordsMin)

\* _keyword_dedup: id of the first active rule whose Jaccard overlap with
\* the new text is at least 0.55
KeywordDedup(new_text, rules) ==
    LET nt == TokenSet(new_text)
        Hit(i) ==
            LET et == TokenSet(rules[i].rule)
            IN  /\ nt # {} /\ et # {}
                /\ 100 * Cardinality(nt \cap et)
                       >= JaccardThreshold * Cardinality(nt \cup et)
        hits == {i \in ActiveIdx(rules) : Hit(i)}
    IN  IF hits = {} THEN NoId ELSE rules[Min(hits)].id

\* faulty variant of FindDuplicate: a similarity equal to the threshold is
\* not a match
FindDuplicateStrict(new_text, rules, ready, new_embedding) ==
    IF ActiveIdx(rules) = {} THEN NoId
    ELSE IF ready /\ new_embedding # NoEmb
    THEN LET hits == {i \in ActiveIdx(rules) :
                        /\ Len(rules[i].embedding) = EmbDim
                        /\ CosineSimilarity(new_embedding, rules[i].embedding)
                               > SimilarityThreshold}
         IN  IF hits = {} THEN NoId ELSE rules[Min(hits)].id
    ELSE KeywordDedup(new_text, rules)

\* _find_duplicate once encode() has returned new_embedding (NoEmb for None,
\* also when the embedding manager is not ready and encode() was not called)
FindDuplicate(new_text, rules, ready, new_embedding) ==
    IF ActiveIdx(rules) = {} THEN NoId
    ELSE IF ready /\ new_embedding # NoEmb
    THEN LET hits == {i \in ActiveIdx(rules) :
                        /\ Len(rules[i].embedding) = EmbDim
                        /\ CosineSimilarity(new_embedding, rules[i].embedding)
                               >= SimilarityThreshold}
         IN  IF hits = {} THEN NoId ELSE rules[Min(hits)].id
    ELSE KeywordDedup(new_text, rules)

\* faulty variant of ReinforceRule: the confidence is not capped
ReinforceRuleUncapped(rules, rule_id, t_now) ==
    LET ids == {i \in DOMAIN rules : rules[i].id = rule_id}
    IN  IF ids = {} THEN rules
        ELSE LET k == Min(ids)
             IN  [rules EXCEPT ![k] =
                    [@ EXCEPT !.trigger_count = @ + 1,
                              !.confidence = @ + ReinforceIncrement,
                              !.last_triggered = t_now]]

\* _reinforce_rule: the first record with that id
ReinforceRule(rules, rule_id, t_now) ==
    LET ids == {i \in DOMAIN rules : rules[i].id = rule_id}
    IN  IF ids = {} THEN rules
        ELSE LET k == Min(ids)
                 c == rules[k].confidence + ReinforceIncrement
             IN  [rules EXCEPT ![k] =
                    [@ EXCEPT !.trigger_count = @ + 1,
                              !.confidence = IF c > 1000 THEN 1000 ELSE c,
                              !.last_triggered = t_now]]

\* round(confidence_in_rule * 0.6, 3), in thousandths
ScaleConfidence(c) == (c * 6 + 5) \div 10

\* _create_rule_entry
CreateRuleEntry(g, embedding, new_id, t_now) ==
    [id |-> new_id,
     rule |-> g.rule,
     embedding |-> embedding,
     confidence |-> ScaleConfidence(g.confidence_in_rule),
     trigger_count |-> 1,
     query_types |-> <<g.query_type>>,
     last_triggered |-> t_now,
     status |-> "active"]

Cap == IF ModelSize = "4B" THEN CapSmall ELSE CapLarge

\* faulty variant of RetireStale: a record triggered exactly 30 days ago
\* counts as stale
RetireStaleInclusive(rules, t_now) ==
    [i \in DOMAIN rules |->
        IF /\ IsActive(rules[i])
           /\ rules[i].last_triggered <= t_now - StaleDays
           /\ rules[i].trigger_count < StaleTriggerCount
        THEN [rules[i] EXCEPT !.status = "retired"]
        ELSE rules[i]]

\* faulty variant of RetireStale: the status of every record is set anew,
\* stale ones retired and all others active
RetireStaleReviving(rules, t_now) ==
    [i \in DOMAIN rules |->
        IF /\ rules[i].last_triggered < t_now - StaleDays
           /\ rules[i].trigger_count < StaleTriggerCount
        THEN [rules[i] EXCEPT !.status = "retired"]
        ELSE [rules[i] EXCEPT !.status = "active"]]

\* _run_lifecycle, first loop: stale and weakly reinforced rules retire
RetireStale(rules, t_now) ==
    [i \in DOMAIN rules |->
        IF /\ IsActive(rules[i])
           /\ rules[i].last_triggered < t_now - StaleDays
           /\ rules[i].trigger_count < StaleTriggerCount
        THEN [rules[i] EXCEPT !.status = "retired"]
        ELSE rules[i]]

\* faulty variant of SortRank: the sort is descending
SortRankDescending(rules, i) ==
    Cardinality({j \in ActiveIdx(rules) :
        \/ rules[j].confidence > rules[i].confidence
        \/ (rules[j].confidence = rules[i].confidence /\ j < i)})

\* _run_lifecycle, rule cap: position of record i in the stable ascending
\* sort of the active records by confidence
SortRank(rules, i) ==
    Cardinality({j \in ActiveIdx(rules) :
        \/ rules[j].confidence < rules[i].confidence
        \/ (rules[j].confidence = rules[i].confidence /\ j < i)})

\* faulty variant of EnforceCap: only the lowest-confidence record retires
EnforceCapOnce(rules, cap) ==
    IF ActiveCount(rules) > cap
    THEN [i \in DOMAIN rules |->
            IF IsActive(rules[i]) /\ SortRank(rules, i) < 1
            THEN [rules[i] EXCEPT !.status = "retired"]
            ELSE rules[i]]
    ELSE rules

EnforceCap(rules, cap) ==
    LET n == ActiveCount(rules)
    IN  IF n > cap
        THEN [i \in DOMAIN rules |->
                IF IsActive(rules[i]) /\ SortRank(rules, i) < n - cap
                THEN [rules[i] EXCEPT !.status = "retired"]
                ELSE rules[i]]
        ELSE rules

RunLifecycle(rules, t_now) == EnforceCap(RetireStale(rules, t_now), Cap)

----------------------------------------------------------------------------
(* The store file and the temp file *)

Hole == -1            \* a chunk no writer has filled
Absent == << -2 >>    \* the path does not exist

\* A file is the sequence of its chunks; chunk i of the document written by
\* task s is the number s at position i (0: the start-up document).
FileOf(s) == [i \in 1..NChunks |-> s]

IsComplete(f) ==
    /\ f # Absent
    /\ Len(f) = NChunks
    /\ \A i \in DOMAIN f : f[i] = f[1] /\ f[i] # Hole

\* pwrite of one chunk at chunk offset k (0-based) into content f
WriteAt(f, k, s) ==
    [i \in 1..(IF Len(f) > k + 1 THEN Len(f) ELSE k + 1) |->
        IF i = k + 1 THEN s
        ELSE IF i <= Len(f) THEN f[i] ELSE Hole]

\* json.load of a file: the document, or "corrupt" (JSONDecodeError)
DocOf(s) == IF s = 0 THEN InitDoc ELSE newDoc[s]

ParseFile(f) == IF IsComplete(f) THEN DocOf(f[1]) ELSE [corrupt |-> TRUE]

\* _read_guidelines_raw
ReadGuidelinesRaw(f) ==
    IF f = Absent THEN FallbackDoc            \* FileNotFoundError
    ELSE IF ~ IsComplete(f) THEN FallbackDoc  \* JSONDecodeError
    ELSE ParseFile(f)

----------------------------------------------------------------------------
(* Feedback events and completion results of the concurrency model *)

NegativeTypes == {"thumbs_down", "negative", "dislike", "bad", "0", "false"}

\* str(feedback_type).lower() on the verdicts of the model
LowerType(s) ==
    CASE s = "THUMBS_DOWN" -> "thumbs_down"
      [] s = "Negative"    -> "negative"
      [] OTHER             -> s

EvGood == [query_is_str |-> TRUE, query_len |-> 18, response_len |-> 11,
           feedback_type |-> "thumbs_down"]
EvPositive == [query_is_str |-> TRUE, query_len |-> 18, response_len |-> 11,
               feedback_type |-> "thumbs_up"]
\* "query" holds a non-string JSON value: .strip() raises AttributeError
EvMalformed == [query_is_str |-> FALSE, query_len |-> 0, response_len |-> 11,
                feedback_type |-> "thumbs_down"]
NoEvent == [none |-> TRUE]

Events == {EvGood, EvPositive, EvMalformed}

\* faulty variant of QualityGate: the length of the response is not checked
QualityGateNoResponseCheck(e) ==
    IF ~ e.query_is_str THEN "raise"
    ELSE IF e.query_len < MinQueryLen THEN "skip"
    ELSE IF LowerType(e.feedback_type) \notin NegativeTypes THEN "skip"
    ELSE "pass"

\* _process step 1
QualityGate(e) ==
    IF ~ e.query_is_str THEN "raise"
    ELSE IF e.query_len < MinQueryLen THEN "skip"
    ELSE IF e.response_len < MinResponseLen THEN "skip"
    ELSE IF LowerType(e.feedback_type) \notin NegativeTypes THEN "skip"
    ELSE "pass"

GenA == [rule |-> TextA, query_type |-> "multilingual",
         confidence_in_rule |-> 900, summary_words |-> 9]
GenB == [rule |-> TextB, query_type |-> "factual",
         confidence_in_rule |-> 900, summary_words |-> 9]
GenWeak == [rule |-> TextB, query_type |-> "factual",
            confidence_in_rule |-> 300, summary_words |-> 9]

\* What one call of the completion service yields for the event of task t:
\* GenFail is a transport error, a non-200 status or text that is not JSON.
\* The service runs at temperature 0, so the candidate is fixed by the
\* event's query; the events of the model alternate between two queries,
\* which gives the pipeline both distinct and matching candidates.
GenFail == [fail |-> TRUE]
GenResults(t) == {GenFail, GenWeak, IF t % 2 = 1 THEN GenA ELSE GenB}

IsFail(r) == "fail" \in DOMAIN r

\* the failures of one completion call apart: httpx raised, the status was
\* not 200, the text was not JSON
FailTransport == [fail |-> TRUE, class |-> "transport"]
FailStatus == [fail |-> TRUE, class |-> "status"]
FailJson == [fail |-> TRUE, class |-> "json"]

GenA2 == [GenA EXCEPT !.rule = TextA2]
GenA3 == [GenA EXCEPT !.rule = TextA3]
\* a candidate at REFLECTION_MIN_CONFIDENCE
GenMin == [GenB EXCEPT !.confidence_in_rule = MinConfidence]
\* a candidate whose rule has n words
GenWords(n) == [GenA EXCEPT !.rule = WordsText(n)]

\* what one completion call can yield in the sequential pipeline
CompletionResults ==
    {FailTransport, FailStatus, FailJson, GenWeak, GenMin, GenA, GenA2, GenA3,
     GenB, GenWords(WordsMin - 1), GenWords(WordsMin), GenWords(WordsMax),
     GenWords(WordsMax + 1)}

\* how _generate_rule's try block ends for the result r
ResultClass(r) ==
    IF IsFail(r) THEN r.class
    ELSE IF ~ SchemaValid(r) THEN "schema"
    ELSE "ok"

----------------------------------------------------------------------------
(* asyncio.Semaphore *)

\* the waiter's future was cancelled before it got a result
FutCancelled(t) == cancelReq[t] /\ t \notin semWoken

\* Semaphore.locked()
SemLocked(val, waiters) ==
    \/ val = 0
    \/ \E i \in DOMAIN waiters : ~ FutCancelled(waiters[i])

\* Semaphore._wake_up_next(): the first waiter whose future is not done
WakeUpNext(S) ==
    LET idx == {i \in DOMAIN S.q : S.q[i] \notin S.w /\ ~ cancelReq[S.q[i]]}
    IN  IF idx = {} THEN S
        ELSE [S EXCEPT !.v = @ - 1, !.w = @ \cup {S.q[Min(idx)]}]

\* faulty variant of SemRelease: the value is raised and no waiter is woken
SemReleaseNoWake(S) == [S EXCEPT !.v = @ + 1]

\* Semaphore.release()
SemRelease(S) == WakeUpNext([S EXCEPT !.v = @ + 1])

SemState == [v |-> semValue, q |-> semWaiters, w |-> semWoken]

SetSem(S) ==
    /\ semValue' = S.v
    /\ semWaiters' = S.q
    /\ semWoken' = S.w

RemoveWaiter(q, t) == SelectSeq(q, LAMBDA x : x # t)

----------------------------------------------------------------------------
(* Task steps.  A step runs the coroutine from one suspension point to the *)
(* next; S is the semaphore state the step has produced so far.            *)

regVars == <<registry, cbRan, logs>>
semVars == <<semValue, semWaiters, semWoken>>
coreVars == <<pc, outcome, cand, base, ev, semVars>>
jobVars == <<wr, rn, ld>>
fileVars == <<tempFile, finalFile>>
cacheVars == <<cacheLock, cacheRules>>
drainVars == <<drainPc, pending, timedOut>>
envVars == <<embReady, now>>
pipeVars == <<store, run, served>>
sideVars == <<gm, sel, mig, txt>>

\* the variables of the other specifications, at rest
NoGm == [none |-> TRUE]
NoSel == [none |-> TRUE]
NoMig == [none |-> TRUE]
NoTxt == [none |-> TRUE]

InPipeline(t) ==
    pc[t] \in {"gen1", "gen2", "enc_dup", "enc_new", "write", "rename", "reload"}

Finished(t) == pc[t] = "done"

\* Faulty variant of Exit: acquire() and release() around _process without
\* `async with`, so an exception leaves the semaphore held.
ExitWithoutFinally(t, res, S) ==
    /\ SetSem(IF res = "exc" THEN S ELSE SemRelease(S))
    /\ pc' = [pc EXCEPT ![t] = "done"]
    /\ outcome' = [outcome EXCEPT ![t] = res]
    /\ cand' = [cand EXCEPT ![t] = NoCand]
    /\ base' = [base EXCEPT ![t] = NoDoc]
    /\ ev' = [ev EXCEPT ![t] = IF res = "exc" THEN @ ELSE NoEvent]

\* the coroutine ends: `async with _semaphore` releases, the task is done
\* and its locals are gone
Exit(t, res, S) ==
    /\ SetSem(SemRelease(S))
    /\ pc' = [pc EXCEPT ![t] = "done"]
    /\ outcome' = [outcome EXCEPT ![t] = res]
    /\ cand' = [cand EXCEPT ![t] = NoCand]
    /\ base' = [base EXCEPT ![t] = NoDoc]
    /\ ev' = [ev EXCEPT ![t] = IF res = "exc" THEN @ ELSE NoEvent]

\* the coroutine suspends at the await named k
Suspend(t, k, g, doc, S) ==
    /\ SetSem(S)
    /\ pc' = [pc EXCEPT ![t] = k]
    /\ cand' = [cand EXCEPT ![t] = g]
    /\ base' = [base EXCEPT ![t] = doc]
    /\ ev' = [ev EXCEPT ![t] = IF k = "sem_wait" THEN @ ELSE NoEvent]
    /\ UNCHANGED outcome

IdleWriter == [st |-> "none", pos |-> 0, on |-> "none"]

\* os.replace(temp, final): an open handle follows its file
AfterReplace(w) ==
    [t \in Tasks |->
        IF w[t].on = "temp" THEN [w[t] EXCEPT !.on = "final"]
        ELSE IF w[t].on = "final" THEN [w[t] EXCEPT !.on = "gone"]
        ELSE w[t]]

\* os.remove(temp)
AfterRemove(w) ==
    [t \in Tasks |->
        IF w[t].on = "temp" THEN [w[t] EXCEPT !.on = "gone"] ELSE w[t]]

\* the step does not reach _atomic_write
NoWrite == UNCHANGED <<newDoc, preFile, wr, tempFile>>

\* _process step 1, entered with the semaphore acquired
ProcessEntry(t, S) ==
    LET gate == QualityGate(ev[t])
    IN  IF gate = "raise" THEN Exit(t, "exc", S)
        ELSE IF gate = "skip" THEN Exit(t, "ok", S)
        ELSE Suspend(t, "gen1", NoCand, NoDoc, S)

\* _atomic_write up to `await loop.run_in_executor(None, _write)`.  When
\* json.dumps or the round-trip validation raises, the except branch runs
\* in the same step: the temp file is removed if it exists, _atomic_write
\* returns False and _process ends.
BeginWrite(t, rules) ==
    /\ newDoc' = [newDoc EXCEPT ![t] =
                    [schema_version |-> "2.0", last_updated |-> t, rules |-> rules]]
    /\ \E ok \in BOOLEAN :
          IF ok
          THEN /\ preFile' = [preFile EXCEPT ![t] = finalFile]
               /\ wr' = [wr EXCEPT ![t] = [st |-> "queued", pos |-> 0, on |-> "none"]]
               /\ Suspend(t, "write", NoCand, NoDoc, SemState)
               /\ UNCHANGED tempFile
          ELSE /\ tempFile' = Absent
               /\ wr' = IF tempFile # Absent THEN AfterRemove(wr) ELSE wr
               /\ Exit(t, "ok", SemState)
               /\ UNCHANGED preFile

\* _process steps 5b-7 once _find_duplicate has returned dup
AfterDedup(t, g, doc, dup) ==
    IF dup # NoId
    THEN BeginWrite(t, RunLifecycle(ReinforceRule(doc.rules, dup, now), now))
    ELSE IF embReady
    THEN Suspend(t, "enc_new", g, doc, SemState) /\ NoWrite
    ELSE BeginWrite(t, RunLifecycle(
            Append(doc.rules, CreateRuleEntry(g, NoEmb, t, now)), now))

\* Faulty variant of schedule_reflection: the caller awaits
\* _run_with_semaphore instead of creating a task, so it waits for the
\* semaphore and runs the quality gate before it returns.
schedule_reflection_awaited(t, e) ==
    /\ pc[t] = "idle"
    /\ \A u \in Tasks : u < t => pc[u] # "idle"
    /\ ~ SemLocked(semValue, semWaiters)
    /\ registry' = registry \cup {t}
    /\ IF QualityGate(e) = "pass"
       THEN /\ SetSem([SemState EXCEPT !.v = @ - 1])
            /\ pc' = [pc EXCEPT ![t] = "gen1"]
            /\ UNCHANGED <<outcome, ev>>
       ELSE /\ pc' = [pc EXCEPT ![t] = "done"]
            /\ outcome' = [outcome EXCEPT ![t] =
                             IF QualityGate(e) = "raise" THEN "exc" ELSE "ok"]
            /\ ev' = [ev EXCEPT ![t] =
                        IF QualityGate(e) = "raise" THEN e ELSE NoEvent]
            /\ UNCHANGED semVars
    /\ UNCHANGED <<cancelReq, cbRan, logs, cand, base, readFile, preFile,
                   newDoc, jobVars, reloadIssued, fileVars, cacheVars,
                   drainVars, envVars, pipeVars, sideVars>>

\* schedule_reflection: create_task, register, add the done-callback
schedule_reflection(t, e) ==
    /\ pc[t] = "idle"
    /\ \A u \in Tasks : u < t => pc[u] # "idle"
    /\ pc' = [pc EXCEPT ![t] = "created"]
    /\ ev' = [ev EXCEPT ![t] = e]
    /\ registry' = registry \cup {t}
    /\ UNCHANGED <<outcome, cancelReq, cbRan, logs, semVars, cand, base,
                   readFile, preFile, newDoc, jobVars, reloadIssued,
                   fileVars, cacheVars, drainVars, envVars, pipeVars, sideVars>>

\* _run_with_semaphore, first step of the task: Semaphore.acquire()
run_with_semaphore(t) ==
    /\ pc[t] = "created"
    /\ ~ cancelReq[t]
    /\ IF SemLocked(semValue, semWaiters)
       THEN Suspend(t, "sem_wait", NoCand, NoDoc,
                    [SemState EXCEPT !.q = Append(@, t)])
       ELSE ProcessEntry(t, [SemState EXCEPT !.v = @ - 1])
    /\ UNCHANGED <<cancelReq, regVars, readFile, preFile, newDoc, jobVars,
                   reloadIssued, fileVars, cacheVars, drainVars, envVars, pipeVars, sideVars>>

\* Semaphore.acquire() resumes after release() gave the waiter its turn
acquire_resumes(t) ==
    /\ pc[t] = "sem_wait"
    /\ t \in semWoken
    /\ ~ cancelReq[t]
    /\ LET S0 == [v |-> semValue, q |-> RemoveWaiter(semWaiters, t),
                  w |-> semWoken \ {t}]
           S1 == IF S0.v > 0 THEN WakeUpNext(S0) ELSE S0
       IN  ProcessEntry(t, S1)
    /\ UNCHANGED <<cancelReq, regVars, readFile, preFile, newDoc, jobVars,
                   reloadIssued, fileVars, cacheVars, drainVars, envVars, pipeVars, sideVars>>

\* _generate_rule: one completion call returns r; then _process steps 3-5
generate_rule_returns(t, r) ==
    /\ pc[t] \in {"gen1", "gen2"}
    /\ ~ cancelReq[t]
    /\ IF IsFail(r) \/ ~ SchemaValid(r)
       THEN /\ IF pc[t] = "gen1"
               THEN Suspend(t, "gen2", NoCand, NoDoc, SemState)
               ELSE Exit(t, "ok", SemState)
            /\ NoWrite /\ UNCHANGED readFile
       ELSE IF ~ PostGenValid(r)
       THEN Exit(t, "ok", SemState) /\ NoWrite /\ UNCHANGED readFile
       ELSE LET doc == ReadGuidelinesRaw(finalFile)
            IN  /\ readFile' = [readFile EXCEPT ![t] = finalFile]
                /\ IF ActiveIdx(doc.rules) # {} /\ embReady
                   THEN Suspend(t, "enc_dup", r, doc, SemState) /\ NoWrite
                   ELSE AfterDedup(t, r, doc,
                            FindDuplicate(r.rule, doc.rules, embReady, NoEmb))
    /\ UNCHANGED <<cancelReq, regVars, rn, ld, reloadIssued, finalFile,
                   cacheVars, drainVars, envVars, pipeVars, sideVars>>

\* what encode() hands back for the candidate text: the vector, or None
\* when the model call failed inside encode()
EncodeResult(t, ok) == IF ok THEN Encode(cand[t].rule, embReady) ELSE NoEmb

\* _find_duplicate: encode() returned in the executor
dedup_encode_returns(t, ok) ==
    /\ pc[t] = "enc_dup"
    /\ ~ cancelReq[t]
    /\ AfterDedup(t, cand[t], base[t],
                  FindDuplicate(cand[t].rule, base[t].rules, embReady,
                                EncodeResult(t, ok)))
    /\ UNCHANGED <<cancelReq, regVars, readFile, rn, ld, reloadIssued,
                   finalFile, cacheVars, drainVars, envVars, pipeVars, sideVars>>

\* _create_rule_entry: encode() returned in the executor
create_encode_returns(t, ok) ==
    /\ pc[t] = "enc_new"
    /\ ~ cancelReq[t]
    /\ BeginWrite(t, RunLifecycle(
            Append(base[t].rules,
                   CreateRuleEntry(cand[t], EncodeResult(t, ok), t, now)), now))
    /\ UNCHANGED <<cancelReq, regVars, readFile, rn, ld, reloadIssued,
                   finalFile, cacheVars, drainVars, envVars, pipeVars, sideVars>>

----------------------------------------------------------------------------
(* Worker threads of the default executor.  A thread keeps running when    *)
(* the task that awaits it is cancelled; only a job that no worker has     *)
(* picked up yet is dropped by the cancellation.  A job whose result       *)
(* nobody awaits any more leaves no trace when it ends.                    *)

\* _write: open(temp_path, "w") creates or truncates the temp file
write_open(t) ==
    /\ wr[t].st = "queued"
    /\ tempFile' = << >>
    /\ wr' = [wr EXCEPT ![t] = [st |-> "running", pos |-> 0, on |-> "temp"]]
    /\ UNCHANGED <<coreVars, cancelReq, regVars, readFile, preFile, newDoc,
                   rn, ld, reloadIssued, finalFile, cacheVars, drainVars,
                   envVars, pipeVars, sideVars>>

\* _write: one write() of f.write(json_str); the last one closes the file
write_chunk(t) ==
    /\ wr[t].st = "running"
    /\ tempFile' = IF wr[t].on = "temp"
                   THEN WriteAt(tempFile, wr[t].pos, t) ELSE tempFile
    /\ finalFile' = IF wr[t].on = "final"
                    THEN WriteAt(finalFile, wr[t].pos, t) ELSE finalFile
    /\ wr' = [wr EXCEPT ![t] =
                IF wr[t].pos + 1 < NChunks THEN [@ EXCEPT !.pos = @ + 1]
                ELSE IF Finished(t) THEN IdleWriter
                ELSE [st |-> "done", pos |-> 0, on |-> "none"]]
    /\ UNCHANGED <<coreVars, cancelReq, regVars, readFile, preFile, newDoc,
                   rn, ld, reloadIssued, cacheVars, drainVars, envVars, pipeVars, sideVars>>

\* _write raises OSError (makedirs, open or write fails).  A failing thread
\* that nobody awaits is a thread that stops, which needs no step.
write_error(t) ==
    /\ wr[t].st \in {"queued", "running"}
    /\ ~ Finished(t)
    /\ wr' = [wr EXCEPT ![t] = [st |-> "failed", pos |-> 0, on |-> "none"]]
    /\ UNCHANGED <<coreVars, cancelReq, regVars, readFile, preFile, newDoc,
                   rn, ld, reloadIssued, fileVars, cacheVars, drainVars,
                   envVars, pipeVars, sideVars>>

\* os.replace(temp_path, path) in the executor
replace_exec(t) ==
    /\ rn[t] = "queued"
    /\ IF tempFile # Absent
       THEN /\ finalFile' = tempFile
            /\ tempFile' = Absent
            /\ wr' = AfterReplace(wr)
            /\ rn' = [rn EXCEPT ![t] = "done"]
            /\ preFile' = [preFile EXCEPT ![t] = << >>]
       ELSE /\ rn' = [rn EXCEPT ![t] =       \* FileNotFoundError
                        IF Finished(t) THEN "none" ELSE "failed"]
            /\ UNCHANGED <<fileVars, wr, preFile>>
    /\ UNCHANGED <<coreVars, cancelReq, regVars, readFile, newDoc, ld,
                   reloadIssued, cacheVars, drainVars, envVars, pipeVars, sideVars>>

\* os.replace raises OSError without touching either path
replace_error(t) ==
    /\ rn[t] = "queued"
    /\ ~ Finished(t)
    /\ rn' = [rn EXCEPT ![t] = "failed"]
    /\ UNCHANGED <<coreVars, cancelReq, regVars, readFile, preFile, newDoc, wr, ld,
                   reloadIssued, fileVars, cacheVars, drainVars, envVars, pipeVars, sideVars>>

\* GuidelinesManager._load in the executor
load_exec(t) ==
    /\ ld[t] = "queued"
    /\ ld' = [ld EXCEPT ![t] = IF Finished(t) THEN "none" ELSE "done"]
    /\ cacheRules' = IF finalFile = Absent THEN << >>
                     ELSE IF IsComplete(finalFile) THEN ParseFile(finalFile).rules
                     ELSE cacheRules       \* corrupt JSON: keep previous cache
    /\ UNCHANGED <<coreVars, cancelReq, regVars, readFile, preFile, newDoc,
                   wr, rn, reloadIssued, fileVars, cacheLock, drainVars,
                   envVars, pipeVars, sideVars>>

----------------------------------------------------------------------------
(* _atomic_write and force_reload, as seen by the task *)

\* the except branch of _atomic_write: remove the temp file if it exists;
\* the failed job of task t is forgotten
CleanupTemp(t) ==
    /\ tempFile' = Absent
    /\ wr' = [(IF tempFile # Absent THEN AfterRemove(wr) ELSE wr)
                EXCEPT ![t] = IdleWriter]
    /\ rn' = [rn EXCEPT ![t] = "none"]
    /\ preFile' = [preFile EXCEPT ![t] = << >>]
    /\ UNCHANGED finalFile

\* `await run_in_executor(None, _write)` returns; os.replace is submitted
write_returns(t) ==
    /\ pc[t] = "write"
    /\ ~ cancelReq[t]
    /\ wr[t].st = "done"
    /\ wr' = [wr EXCEPT ![t] = IdleWriter]
    /\ rn' = [rn EXCEPT ![t] = "queued"]
    /\ pc' = [pc EXCEPT ![t] = "rename"]
    /\ UNCHANGED <<outcome, cand, base, ev, semVars, cancelReq, regVars,
                   readFile, preFile, newDoc, ld, reloadIssued, fileVars,
                   cacheVars, drainVars, envVars, pipeVars, sideVars>>

\* `await run_in_executor(None, _write)` raises: clean up, return False
write_raises(t) ==
    /\ pc[t] = "write"
    /\ ~ cancelReq[t]
    /\ wr[t].st = "failed"
    /\ CleanupTemp(t)
    /\ Exit(t, "ok", SemState)
    /\ UNCHANGED <<cancelReq, regVars, readFile, newDoc, ld, reloadIssued,
                   cacheVars, drainVars, envVars, pipeVars, sideVars>>

\* os.replace returned: _atomic_write returns True and _process calls
\* force_reload, which takes the cache lock and submits _load
replace_returns(t) ==
    /\ pc[t] = "rename"
    /\ ~ cancelReq[t]
    /\ rn[t] = "done"
    /\ cacheLock = 0
    /\ cacheLock' = t
    /\ reloadIssued' = [reloadIssued EXCEPT ![t] = TRUE]
    /\ ld' = [ld EXCEPT ![t] = "queued"]
    /\ pc' = [pc EXCEPT ![t] = "reload"]
    /\ UNCHANGED <<outcome, cand, base, ev, semVars, cancelReq, regVars,
                   readFile, preFile, newDoc, wr, rn, fileVars, cacheRules,
                   drainVars, envVars, pipeVars, sideVars>>

\* os.replace raised: clean up, return False, no force_reload
replace_raises(t) ==
    /\ pc[t] = "rename"
    /\ ~ cancelReq[t]
    /\ rn[t] = "failed"
    /\ CleanupTemp(t)
    /\ Exit(t, "ok", SemState)
    /\ UNCHANGED <<cancelReq, regVars, readFile, newDoc, ld, reloadIssued,
                   cacheVars, drainVars, envVars, pipeVars, sideVars>>

\* force_reload: _load returned, the TTL timer is reset, the lock released
force_reload_returns(t) ==
    /\ pc[t] = "reload"
    /\ ~ cancelReq[t]
    /\ ld[t] = "done"
    /\ ld' = [ld EXCEPT ![t] = "none"]
    /\ cacheLock' = 0
    /\ Exit(t, "ok", SemState)
    /\ UNCHANGED <<cancelReq, regVars, readFile, preFile, newDoc, wr, rn,
                   reloadIssued, fileVars, cacheRules, drainVars, envVars, pipeVars, sideVars>>

----------------------------------------------------------------------------
(* Cancellation, done-callback, shutdown drain *)

\* the executor job of a cancelled await: dropped unless a worker has it
DropWriter(w, keep) ==
    IF w.st \in {"done", "failed"} \/ (w.st = "queued" /\ ~ keep)
    THEN IdleWriter ELSE w

DropReplace(j, keep) ==
    IF j = "failed" \/ (j = "queued" /\ ~ keep) THEN "none" ELSE j

DropLoad(j, keep) ==
    IF j = "done" \/ (j = "queued" /\ ~ keep) THEN "none" ELSE j

\* CancelledError is thrown into the coroutine at its current await
cancel_delivered(t, keep) ==
    /\ cancelReq[t]
    /\ pc[t] \notin {"idle", "done"}
    /\ cancelReq' = [cancelReq EXCEPT ![t] = FALSE]
    /\ pc' = [pc EXCEPT ![t] = "done"]
    /\ outcome' = [outcome EXCEPT ![t] = "cancelled"]
    /\ cand' = [cand EXCEPT ![t] = NoCand]
    /\ base' = [base EXCEPT ![t] = NoDoc]
    /\ ev' = [ev EXCEPT ![t] = NoEvent]
    /\ IF pc[t] = "created"
       THEN UNCHANGED semVars
       ELSE IF pc[t] = "sem_wait"
       THEN LET S0 == [v |-> semValue, q |-> RemoveWaiter(semWaiters, t),
                       w |-> semWoken \ {t}]
            IN  SetSem(IF t \in semWoken THEN SemRelease(S0) ELSE S0)
       ELSE SetSem(SemRelease(SemState))
    /\ wr' = [wr EXCEPT ![t] = DropWriter(@, keep)]
    /\ rn' = [rn EXCEPT ![t] = DropReplace(@, keep)]
    /\ ld' = [ld EXCEPT ![t] = DropLoad(@, keep)]
    /\ readFile' = [readFile EXCEPT ![t] =
                        IF newDoc[t] = NoDoc THEN << >> ELSE @]
    /\ preFile' = [preFile EXCEPT ![t] = << >>]
    /\ cacheLock' = IF cacheLock = t THEN 0 ELSE cacheLock
    /\ UNCHANGED <<regVars, newDoc, reloadIssued, fileVars, cacheRules,
                   drainVars, envVars, pipeVars, sideVars>>

\* Faulty variant of task_done_callback: task.result() is read before the
\* discard and the CancelledError branch returns, so a cancelled task
\* stays registered.
task_done_callback_result_first(t) ==
    /\ pc[t] = "done"
    /\ ~ cbRan[t]
    /\ registry' = IF outcome[t] = "cancelled" THEN registry
                   ELSE registry \ {t}
    /\ cbRan' = [cbRan EXCEPT ![t] = TRUE]
    /\ logs' = logs \cup
                 (IF outcome[t] = "cancelled" THEN {<<t, "cancelled">>}
                  ELSE IF outcome[t] = "exc" THEN {<<t, "FAILED">>}
                  ELSE {})
    /\ UNCHANGED <<coreVars, cancelReq, readFile, preFile, newDoc, jobVars,
                   reloadIssued, fileVars, cacheVars, drainVars, envVars, pipeVars, sideVars>>

\* _task_done_callback
task_done_callback(t) ==
    /\ pc[t] = "done"
    /\ ~ cbRan[t]
    /\ registry' = registry \ {t}
    /\ cbRan' = [cbRan EXCEPT ![t] = TRUE]
    /\ logs' = logs \cup
                 (IF outcome[t] = "cancelled" THEN {<<t, "cancelled">>}
                  ELSE IF outcome[t] = "exc" THEN {<<t, "FAILED">>}
                  ELSE {})
    /\ UNCHANGED <<coreVars, cancelReq, readFile, preFile, newDoc, jobVars,
                   reloadIssued, fileVars, cacheVars, drainVars, envVars, pipeVars, sideVars>>

\* await_pending_tasks up to the await
await_pending_tasks ==
    /\ drainPc = "idle"
    /\ pending' = registry
    /\ drainPc' = IF registry = {} THEN "returned" ELSE "waiting"
    /\ UNCHANGED <<coreVars, cancelReq, regVars, readFile, preFile, newDoc,
                   jobVars, reloadIssued, fileVars, cacheVars, timedOut,
                   envVars, pipeVars, sideVars>>

\* gather(*pending, return_exceptions=True): exceptions become results
GatherOutcome(P) == "returned"

\* every pending task finished within the timeout
drain_gathered ==
    /\ drainPc = "waiting"
    /\ \A t \in pending : Finished(t)
    /\ drainPc' = GatherOutcome(pending)
    /\ UNCHANGED <<coreVars, cancelReq, regVars, readFile, preFile, newDoc,
                   jobVars, reloadIssued, fileVars, cacheVars, pending,
                   timedOut, envVars, pipeVars, sideVars>>

\* Faulty variant of drain_timeout: asyncio.wait(pending, timeout=15)
\* in place of wait_for(gather(...)): the timeout returns with the tasks
\* still running.
drain_timeout_no_cancel ==
    /\ drainPc = "waiting"
    /\ \E t \in pending : ~ Finished(t)
    /\ timedOut' = TRUE
    /\ drainPc' = "returned"
    /\ UNCHANGED <<coreVars, cancelReq, regVars, readFile, preFile, newDoc,
                   jobVars, reloadIssued, fileVars, cacheVars, pending,
                   envVars, pipeVars, sideVars>>

\* the 15 s timeout fires: wait_for cancels the gather, which cancels every
\* child that is not done
drain_timeout ==
    /\ drainPc = "waiting"
    /\ \E t \in pending : ~ Finished(t)
    /\ cancelReq' = [t \in Tasks |->
                        cancelReq[t] \/ (t \in pending /\ ~ Finished(t))]
    /\ timedOut' = TRUE
    /\ drainPc' = "cancelling"
    /\ UNCHANGED <<coreVars, regVars, readFile, preFile, newDoc, jobVars,
                   reloadIssued, fileVars, cacheVars, pending, envVars, pipeVars, sideVars>>

\* wait_for raises TimeoutError once the cancelled gather is done; the
\* except branch calls cancel() on tasks that are all done by then
drain_cancelled ==
    /\ drainPc = "cancelling"
    /\ \A t \in pending : Finished(t)
    /\ drainPc' = "returned"
    /\ UNCHANGED <<coreVars, cancelReq, regVars, readFile, preFile, newDoc,
                   jobVars, reloadIssued, fileVars, cacheVars, pending,
                   timedOut, envVars, pipeVars, sideVars>>

----------------------------------------------------------------------------
(* Specification *)

AgentInit ==
    /\ pc = [t \in Tasks |-> "idle"]
    /\ outcome = [t \in Tasks |-> "none"]
    /\ cancelReq = [t \in Tasks |-> FALSE]
    /\ cbRan = [t \in Tasks |-> FALSE]
    /\ registry = {}
    /\ logs = {}
    /\ semValue = SemaphoreInitial
    /\ semWaiters = << >>
    /\ semWoken = {}
    /\ ev = [t \in Tasks |-> NoEvent]
    /\ cand = [t \in Tasks |-> NoCand]
    /\ base = [t \in Tasks |-> NoDoc]
    /\ readFile = [t \in Tasks |-> << >>]
    /\ preFile = [t \in Tasks |-> << >>]
    /\ newDoc = [t \in Tasks |-> NoDoc]
    /\ wr = [t \in Tasks |-> IdleWriter]
    /\ rn = [t \in Tasks |-> "none"]
    /\ ld = [t \in Tasks |-> "none"]
    /\ reloadIssued = [t \in Tasks |-> FALSE]
    /\ tempFile = Absent
    /\ finalFile = FileOf(0)
    /\ cacheLock = 0
    /\ cacheRules = InitDoc.rules
    /\ drainPc = "idle"
    /\ pending = {}
    /\ timedOut = FALSE
    /\ embReady \in BOOLEAN
    /\ now = 100

Init ==
    /\ AgentInit
    /\ store = << >>
    /\ run = NoRun
    /\ served = 0
    /\ gm = NoGm
    /\ sel = NoSel
    /\ mig = NoMig
    /\ txt = NoTxt

Next ==
    \/ \E t \in Tasks, e \in Events : schedule_reflection(t, e)
    \/ \E t \in Tasks : run_with_semaphore(t)
    \/ \E t \in Tasks : acquire_resumes(t)
    \/ \E t \in Tasks : \E r \in GenResults(t) : generate_rule_returns(t, r)
    \/ \E t \in Tasks, ok \in BOOLEAN : dedup_encode_returns(t, ok)
    \/ \E t \in Tasks, ok \in BOOLEAN : create_encode_returns(t, ok)
    \/ \E t \in Tasks : write_open(t)
    \/ \E t \in Tasks : write_chunk(t)
    \/ \E t \in Tasks : write_error(t)
    \/ \E t \in Tasks : write_returns(t)
    \/ \E t \in Tasks : write_raises(t)
    \/ \E t \in Tasks : replace_exec(t)
    \/ \E t \in Tasks : replace_error(t)
    \/ \E t \in Tasks : replace_returns(t)
    \/ \E t \in Tasks : replace_raises(t)
    \/ \E t \in Tasks : load_exec(t)
    \/ \E t \in Tasks : force_reload_returns(t)
    \/ \E t \in Tasks, keep \in BOOLEAN : cancel_delivered(t, keep)
    \/ \E t \in Tasks : task_done_callback(t)
    \/ await_pending_tasks
    \/ drain_gathered
    \/ drain_timeout
    \/ drain_cancelled

Spec == Init /\ [][Next]_vars

\* what the event loop, the external services and the worker threads do for
\* task t once it is scheduled
TaskProgress(t) ==
    \/ run_with_semaphore(t)
    \/ acquire_resumes(t)
    \/ \E r \in GenResults(t) : generate_rule_returns(t, r)
    \/ \E ok \in BOOLEAN : dedup_encode_returns(t, ok)
    \/ \E ok \in BOOLEAN : create_encode_returns(t, ok)
    \/ write_open(t) \/ write_chunk(t) \/ write_error(t)
    \/ write_returns(t) \/ write_raises(t)
    \/ replace_exec(t) \/ replace_error(t)
    \/ replace_returns(t) \/ replace_raises(t)
    \/ load_exec(t)
    \/ force_reload_returns(t)
    \/ \E keep \in BOOLEAN : cancel_delivered(t, keep)

\* the same program when every external call returns: the event loop runs
\* each coroutine that is ready, and each job handed to the executor runs
LiveSpec == Spec /\ \A t \in Tasks : WF_vars(TaskProgress(t))

----------------------------------------------------------------------------
(* The pipeline alone: _process run for one event after another, as the    *)
(* semaphore orders the runs, with nothing cancelled.  It starts from a    *)
(* store that earlier runs or the migration left behind.  The read of the  *)
(* store, both encode() calls and the write can each fail.                 *)

MaxEvents == 2      \* feedback events handed to the pipeline

\* for attempt in range(2)
Attempts == 2

agentVars == <<regVars, coreVars, cancelReq, jobVars, fileVars, cacheVars,
               drainVars, envVars, readFile, preFile, newDoc, reloadIssued>>

\* a record as run_schema_migration writes it; emb is NoEmb when no
\* embedding was at hand
LegacyRule(i, emb, conf, count, last) ==
    [id |-> 100 + i,
     rule |-> LegacyText(i),
     embedding |-> emb,
     confidence |-> conf,
     trigger_count |-> count,
     query_types |-> <<"general">>,
     last_triggered |-> last,
     status |-> "active"]

\* records last triggered 31 and 30 days before the start of the run, and a
\* record with the text of TextB that an earlier commit retired
AgedStore ==
    << LegacyRule(1, NoEmb, 500, 2, 69), LegacyRule(2, NoEmb, 500, 3, 69),
       LegacyRule(3, NoEmb, 500, 2, 70), LegacyRule(4, NoEmb, 500, 3, 70),
       [LegacyRule(5, NoEmb, 500, 1, 100) EXCEPT !.status = "retired",
                                                !.rule = TextB] >>

\* one migrated record with the text of TextA and no embedding
BareStore == << [LegacyRule(1, NoEmb, 500, 1, 100) EXCEPT !.rule = TextA] >>

\* a record with the text of TextA that earlier events have reinforced to
\* confidence 0.95, and a record with another text
ProvenStore ==
    << [LegacyRule(1, NoEmb, 950, 7, 90) EXCEPT !.rule = TextA],
       [LegacyRule(2, NoEmb, 500, 1, 100) EXCEPT !.rule = TextB] >>

\* n active records, triggered today, of confidence 0.3 to 0.6, and after
\* them one active record of confidence 0.9 that has gone stale; the
\* migration does not deduplicate, and the encoder gave their texts one vector
FullStore(n) ==
    [i \in 1..(n + 1) |->
        IF i <= n
        THEN LegacyRule(i, <<0, -100>>,
                        IF i = 1 THEN 300 ELSE 400 + 100 * (i % 3), 5, 100)
        ELSE LegacyRule(i, <<0, -100>>, 900, 1, 69)]

StartStores ==
    {<< >>, AgedStore, BareStore, ProvenStore, FullStore(Cap + 1),
     FullStore(Cap + 3)}

\* _read_guidelines_raw: the rules of the document, or of the fallback
\* document when open() or json.load() raised
ReadRules(rules, ok) == IF ok THEN rules ELSE FallbackDoc.rules

\* events the gate turns away for their length, and a negative verdict in
\* upper case
EvShortQuery == [EvGood EXCEPT !.query_len = MinQueryLen - 1]
EvShortResponse == [EvGood EXCEPT !.response_len = MinResponseLen - 1]
EvUpper == [EvGood EXCEPT !.feedback_type = "THUMBS_DOWN"]

PipelineEvents == Events \cup {EvShortQuery, EvShortResponse, EvUpper}

\* _process step 1.  run.ev is feedback_data, which steps 1 and 2 use and
\* the later steps do not; run.did collects what the call has done: "completion" (a completion call), "read" (the store was read),
\* "write" (_atomic_write was called), "reload" (force_reload was called).
process_begins(e) ==
    /\ run.phase = "idle"
    /\ served < MaxEvents
    /\ served' = served + 1
    /\ run' = CASE QualityGate(e) = "raise" ->
                      [NoRun EXCEPT !.ev = e, !.result = "raised"]
                 [] QualityGate(e) = "skip" ->
                      [NoRun EXCEPT !.ev = e, !.result = "skipped"]
                 [] OTHER -> [NoRun EXCEPT !.ev = e, !.phase = "gen"]
    /\ UNCHANGED <<store, agentVars, sideVars>>

\* _generate_rule: one completion call returns r; then _process step 3.
\* run.got holds the exceptions the call of _generate_rule has caught, one
\* per failed attempt; a rule that validates ends the call and its locals.
completion_returns(r) ==
    /\ run.phase = "gen"
    /\ LET got == Append(run.got, ResultClass(r))
           did == run.did \cup {"completion"}
       IN  run' =
             IF IsFail(r) \/ ~ SchemaValid(r)
             THEN IF Len(got) < Attempts
                  THEN [run EXCEPT !.got = got, !.did = did]
                  ELSE [run EXCEPT !.got = got, !.did = did, !.phase = "idle",
                                   !.result = "abandoned"]
             ELSE IF ~ PostGenValid(r)
             THEN [run EXCEPT !.got = << >>, !.did = did, !.phase = "idle",
                              !.cand = r, !.result = "rejected"]
             ELSE [run EXCEPT !.got = << >>, !.did = did, !.phase = "commit",
                              !.cand = r, !.ev = NoEvent]
    /\ UNCHANGED <<store, served, agentVars, sideVars>>

\* _process steps 4-7: read, deduplicate, reinforce or create, lifecycle,
\* atomic write
process_commits(readOk, dedupOk, createOk, writeOk) ==
    /\ run.phase = "commit"
    /\ LET g == run.cand
           rules == ReadRules(store, readOk)
           dup == FindDuplicate(g.rule, rules, embReady,
                      IF dedupOk THEN Encode(g.rule, embReady) ELSE NoEmb)
           entry == CreateRuleEntry(g,
                      IF createOk THEN Encode(g.rule, embReady) ELSE NoEmb,
                      served, now)
           mid == IF dup # NoId THEN ReinforceRule(rules, dup, now)
                  ELSE Append(rules, entry)
           path == IF ActiveIdx(rules) = {} THEN "none"
                   ELSE IF embReady /\ dedupOk THEN "embedding"
                   ELSE "keyword"
       IN  /\ run' = [run EXCEPT !.phase = "idle", !.dup = dup, !.mid = mid,
                                 !.path = path,
                                 !.did = @ \cup {"read", "write"}
                                           \cup (IF writeOk THEN {"reload"}
                                                 ELSE {}),
                                 !.result = IF writeOk THEN "committed"
                                            ELSE "write_failed"]
           /\ store' = IF writeOk THEN RunLifecycle(mid, now) ELSE store
    /\ UNCHANGED <<served, agentVars, sideVars>>

PipelineInit ==
    /\ AgentInit
    /\ store \in StartStores
    /\ run = NoRun
    /\ served = 0
    /\ gm = NoGm
    /\ sel = NoSel
    /\ mig = NoMig
    /\ txt = NoTxt

PipelineNext ==
    \/ \E e \in PipelineEvents : process_begins(e)
    \/ \E r \in CompletionResults : completion_returns(r)
    \/ \E readOk, dedupOk, createOk, writeOk \in BOOLEAN :
           process_commits(readOk, dedupOk, createOk, writeOk)

PipelineSpec == PipelineInit /\ [][PipelineNext]_vars

----------------------------------------------------------------------------
(* Properties *)

\* the step takes task t from outside the write pipeline into _process
EntersPipeline(t) ==
    /\ pc[t] \in {"created", "sem_wait"}
    /\ \/ InPipeline(t)'
       \/ (pc'[t] = "done" /\ outcome'[t] # "cancelled")

\* C1: at every moment at most one feedback task is inside the write
\* pipeline, and a task scheduled while another task is in the pipeline
\* starts no stage of _process (not even the quality gate) until that task
\* has left it.
C1_SingleWriter ==
    /\ [](Cardinality({t \in Tasks : InPipeline(t)}) <= 1)
    /\ [][\A t \in Tasks : EntersPipeline(t) =>
             \A u \in Tasks \ {t} : ~ InPipeline(u) /\ ~ InPipeline(u)']_vars

\* C1 happens: one task is in the pipeline while another waits for the
\* semaphore
C1_Witness ==
    \E t, u \in Tasks : InPipeline(t) /\ pc[u] = "sem_wait" /\ u \notin semWoken

\* C2: a reader that opens the store file at any instant finds a complete
\* document there (the previous commit's or the next commit's), never a
\* partially written one.
C2_NoTornStore == IsComplete(finalFile)

\* task t has written its temp file and its os.replace has not run yet
BetweenWriteAndRename(t) ==
    \/ pc[t] = "write" /\ wr[t].st = "done"
    \/ pc[t] = "rename" /\ rn[t] = "queued"

\* C3: while a task is between its temp write and its rename (where a
\* process kill would stop it), the store file is byte-identical to what it
\* was when the task's commit began.
C3_StoreUntouchedBeforeRename ==
    \A t \in Tasks : BetweenWriteAndRename(t) => finalFile = preFile[t]

\* the step is a successful os.replace that leaves a complete document at
\* the store path
Commits(t) ==
    /\ rn[t] = "queued"
    /\ rn'[t] = "done"
    /\ IsComplete(finalFile')

\* C4: every successful commit installs a document built from the content
\* the previous commit left at the store path (no commit is based on a
\* stale read), so that every accepted event adds its record to the records
\* of all earlier ones.
C4_NoStaleCommit ==
    [][\A t \in Tasks :
          Commits(t) => readFile[finalFile'[1]] = finalFile]_vars

\* the caller's next schedule_reflection call is for task t
NextToSchedule(t) ==
    /\ pc[t] = "idle"
    /\ \A u \in Tasks : u < t => pc[u] # "idle"

\* C5: schedule_reflection returns without waiting for processing: the call
\* can complete in one step in every state, whether or not the semaphore is
\* held or has waiters, and when it has returned the new task is created
\* and registered but no stage of its pipeline has run (the semaphore, the
\* files and the worker jobs are as before).
C5_ReturnsImmediately ==
    /\ [](\A t \in Tasks : NextToSchedule(t) =>
             \A e \in Events : ENABLED schedule_reflection(t, e))
    /\ [][\A t \in Tasks : (pc[t] = "idle" /\ pc'[t] # "idle") =>
             /\ pc'[t] = "created"
             /\ outcome'[t] = "none"
             /\ t \in registry'
             /\ UNCHANGED <<semVars, fileVars, jobVars>>]_vars

\* C5 happens: a task has been scheduled, and has not run, while another
\* task holds the semaphore inside the pipeline
C5_Witness ==
    \E t, u \in Tasks :
        pc[t] = "created" /\ InPipeline(u) /\ SemLocked(semValue, semWaiters)

\* C6: a task is in the registry from the return of schedule_reflection
\* until it finishes, where finishing ends with the task's done-callback;
\* the callback removes it whether the task ended by success, by exception
\* or by cancellation, so that the registry is empty once every scheduled
\* task has finished.
C6_RegistryTracksTasks ==
    /\ registry = {t \in Tasks : pc[t] # "idle" /\ ~ cbRan[t]}
    /\ \A t \in Tasks : cbRan[t] => Finished(t)
    /\ (\A t \in Tasks : pc[t] # "idle" => Finished(t) /\ cbRan[t])
          => registry = {}

\* C6 happens: one task ended by exception, another by cancellation, both
\* callbacks have run and the registry is empty
C6_Witness ==
    \E t, u \in Tasks :
        /\ outcome[t] = "exc" /\ cbRan[t]
        /\ outcome[u] = "cancelled" /\ cbRan[u]
        /\ registry = {}

\* C7: an exception raised in a task's pipeline stays in that task and is
\* consumed by its done-callback: only the task whose own event raised ends
\* by exception, the callback logs it, the drain does not raise it, the
\* semaphore is released (value, holders and woken waiters always add up to
\* its initial count) and so later events are still processed.
C7_ExceptionContained ==
    /\ \A t \in Tasks : outcome[t] = "exc" =>
          /\ QualityGate(ev[t]) = "raise"
          /\ cbRan[t] => <<t, "FAILED">> \in logs
    /\ drainPc # "raised"
    /\ semValue + Cardinality({t \in Tasks : InPipeline(t)})
                + Cardinality(semWoken) = SemaphoreInitial

\* C7 happens: a task ended by exception, its callback ran, and a task
\* scheduled after it went through the whole pipeline
C7_Witness ==
    \E t, u \in Tasks :
        /\ t < u
        /\ outcome[t] = "exc" /\ cbRan[t]
        /\ outcome[u] = "ok" /\ reloadIssued[u]

\* C8: await_pending_tasks snapshots the registry; with an empty registry
\* it returns at once; otherwise it returns only when every task of the
\* snapshot is finished, and a task of the snapshot is cancelled by the
\* drain only after the 15 s timeout.
C8_DrainWaits ==
    /\ [](drainPc = "returned" => \A t \in pending : Finished(t))
    /\ [](~ timedOut => \A t \in Tasks : ~ cancelReq[t] /\ outcome[t] # "cancelled")
    /\ [][(drainPc = "idle" /\ drainPc' # "idle") =>
             /\ pending' = registry
             /\ (registry = {}) <=> (drainPc' = "returned")]_vars

\* C8 happens: the drain returned after the timeout with a task it
\* cancelled
C8_Witness ==
    /\ drainPc = "returned"
    /\ timedOut
    /\ \E t \in pending : outcome[t] = "cancelled"

\* C9: a task whose os.replace has put its commit in place has called
\* force_reload by the time it has ended.
C9_CommitThenReload ==
    \A t \in Tasks : (Finished(t) /\ rn[t] = "done") => reloadIssued[t]

\* task t was cancelled after _atomic_write had begun
CancelledInCommit(t) == outcome[t] = "cancelled" /\ newDoc[t] # NoDoc

\* C10: once a task has been cancelled inside its commit, the store file
\* holds a complete document (the one before the commit or the new one),
\* never an intermediate state.
C10_CancelLeavesCompleteStore ==
    (\E t \in Tasks : CancelledInCommit(t)) => IsComplete(finalFile)

\* the step is task t's _atomic_write returning False: serialization or
\* validation raised before any file was touched, or the awaited temp write
\* or rename raised
CommitFails(t) ==
    /\ pc'[t] = "done"
    /\ outcome'[t] = "ok"
    /\ \/ newDoc[t] = NoDoc /\ newDoc'[t] # NoDoc
       \/ pc[t] = "write" /\ wr[t].st = "failed"
       \/ pc[t] = "rename" /\ rn[t] = "failed"

\* the content of the store file when task t's failing commit began
PreCommit(t) == IF pc[t] \in {"write", "rename"} THEN preFile[t] ELSE finalFile

\* C22: when serialization, validation, the temp write or the rename fails,
\* the store file has the content it had before the commit began, the temp
\* file is gone, the commit reports failure (the task ends without calling
\* force_reload) and the cache is not reloaded.
C22_FailedCommitLeavesStore ==
    [][\A t \in Tasks :
          CommitFails(t) =>
              /\ finalFile' = PreCommit(t)
              /\ tempFile' = Absent
              /\ ~ reloadIssued'[t]
              /\ ld'[t] = "none"
              /\ cacheRules' = cacheRules]_vars

C39_OneTempWriter ==
    [][\A t, u \in Tasks :
          (t # u /\ wr[t].st = "running") =>
              /\ ~ (wr[u].st = "queued" /\ wr'[u].st = "running")
              /\ ~ (rn[u] = "queued" /\ rn'[u] # "queued")]_vars

----------------------------------------------------------------------------
(* Properties of the sequential pipeline *)

\* the step is a successful commit of _process
CommitStep == run.phase = "commit" /\ run'.result = "committed"

\* the store holds one active record, left by one event with the text of g
LeftByOneEvent(rules, g) ==
    /\ Len(rules) = 1
    /\ IsActive(rules[1])
    /\ rules[1].rule = g.rule
    /\ rules[1].trigger_count = 1

\* C11: from an empty store, a committed event whose candidate has
\* confidence 0.9 leaves exactly one active record of confidence 0.54 and
\* trigger_count 1; a second, identical event adds no record and leaves that
\* record with trigger_count 2 and a higher confidence.
C11_FirstAndSecondEvent ==
    [][(CommitStep /\ run.cand.confidence_in_rule = 900) =>
          /\ store = << >> =>
                /\ Len(store') = 1
                /\ IsActive(store'[1])
                /\ store'[1].confidence = 540
                /\ store'[1].trigger_count = 1
          /\ LeftByOneEvent(store, run.cand) =>
                /\ Len(store') = 1
                /\ store'[1].trigger_count = 2
                /\ store'[1].confidence > store[1].confidence]_vars

\* the candidate's similarity to record i of the store, in ten-thousandths
SimTo(i) == CosineSimilarity(EmbeddingOf(run.cand.rule), store[i].embedding)

HasEmbedding(i) == Len(store[i].embedding) = EmbDim

\* the last record of the store after the step is a new one for the candidate
AppendedNew ==
    /\ Len(store') = Len(store) + 1
    /\ store'[Len(store')].rule = run.cand.rule
    /\ store'[Len(store')].trigger_count = 1

MergedOnEmbedding ==
    /\ Len(store') = Len(store)
    /\ \E i \in ActiveIdx(store) :
          /\ HasEmbedding(i) /\ SimTo(i) >= 8200
          /\ store'[i].trigger_count = store[i].trigger_count + 1

\* C12 as stated: on the embedding path a candidate with cosine similarity
\* of at least 0.82 to an active rule's stored embedding is merged (record
\* count unchanged, trigger_count incremented), and a candidate whose
\* similarity to every active rule is below 0.82 is appended as a new
\* active record.
C12_Original ==
    [][(CommitStep /\ run'.path = "embedding") =>
          /\ (\E i \in ActiveIdx(store) : HasEmbedding(i) /\ SimTo(i) >= 8200)
                => MergedOnEmbedding
          /\ (\A i \in ActiveIdx(store) : HasEmbedding(i) /\ SimTo(i) < 8200)
                => AppendedNew /\ IsActive(store'[Len(store')])]_vars

\* C12, amended: as C12_Original, except that the appended record is active
\* only if the cap enforcement of the same commit does not retire it; when
\* it is retired the active records number exactly the cap and none of them
\* has a lower confidence than the new record.
C12_EmbeddingDedup ==
    [][(CommitStep /\ run'.path = "embedding") =>
          /\ (\E i \in ActiveIdx(store) : HasEmbedding(i) /\ SimTo(i) >= 8200)
                => MergedOnEmbedding
          /\ (\A i \in ActiveIdx(store) : HasEmbedding(i) /\ SimTo(i) < 8200)
                => /\ AppendedNew
                   /\ \/ IsActive(store'[Len(store')])
                      \/ /\ ActiveCount(store') = Cap
                         /\ \A j \in ActiveIdx(store') :
                               store'[j].confidence
                                   >= store'[Len(store')].confidence]_vars

\* an embedding-path commit appended the candidate and the cap retired it
C12_Witness ==
    /\ run.result = "committed"
    /\ run.path = "embedding"
    /\ run.dup = NoId
    /\ store # << >>
    /\ store[Len(store)].rule = run.cand.rule
    /\ store[Len(store)].status = "retired"
    /\ \E i \in ActiveIdx(store) : Len(store[i].embedding) = EmbDim

\* the dedup test applied to two stored records: the cosine similarity of
\* their embeddings is at least 0.82, or the Jaccard overlap of their token
\* sets is at least 0.55
RecordsMatch(a, b) ==
    \/ /\ Len(a.embedding) = EmbDim /\ Len(b.embedding) = EmbDim
       /\ CosineSimilarity(a.embedding, b.embedding) >= 8200
    \/ LET ta == TokenSet(a.rule)
           tb == TokenSet(b.rule)
       IN  /\ ta # {} /\ tb # {}
           /\ 100 * Cardinality(ta \cap tb) >= 55 * Cardinality(ta \cup tb)

NoActiveDuplicates(rules) ==
    \A i, j \in ActiveIdx(rules) : i < j => ~ RecordsMatch(rules[i], rules[j])

\* C13: a successful commit on a store in which no two active records match
\* each other under the dedup test leaves a store in which no two active
\* records match each other.
C13_NoActiveDuplicates ==
    [][(CommitStep /\ NoActiveDuplicates(store)) => NoActiveDuplicates(store')]_vars

Unexpired ==
    {i \in ActiveIdx(run.mid) :
        ~ (run.mid[i].last_triggered < now - 30 /\ run.mid[i].trigger_count < 3)}

\* the unexpired records the commit retired
CapRetired == {i \in Unexpired : store[i].status = "retired"}

\* C15: when the active count after stale retirement exceeds the cap of 30
\* by n, the commit retires exactly n of those records, and no retired
\* record has a higher confidence than a record that stays active.
C15_CapRetiresLowest ==
    (run.result = "committed" /\ Cardinality(Unexpired) > 30) =>
        /\ Cardinality(CapRetired) = Cardinality(Unexpired) - 30
        /\ \A i \in CapRetired : \A j \in Unexpired \ CapRetired :
               run.mid[i].confidence <= run.mid[j].confidence

\* 31 active records plus a new one: two retire, thirty stay
C15_Witness ==
    /\ run.result = "committed"
    /\ run.dup = NoId
    /\ Cardinality(Unexpired) = 30 + 2
    /\ Cardinality(CapRetired) = 2
    /\ ActiveCount(store) = 30

\* record i of the document handed to _run_lifecycle was last triggered more
\* than 30 days ago and has been triggered fewer than 3 times
StaleAndWeak(i) ==
    /\ now - run.mid[i].last_triggered > 30
    /\ run.mid[i].trigger_count < 3

\* C16: a commit retires an active record for staleness if and only if its
\* last_triggered is more than 30 days in the past and its trigger_count is
\* below 3: such a record is retired by every commit, and when the cap
\* retires nothing no other active record is retired.
C16_StaleRetirement ==
    run.result = "committed" =>
        /\ \A i \in ActiveIdx(run.mid) :
               StaleAndWeak(i) => store[i].status = "retired"
        /\ Cardinality(Unexpired) <= 30 =>
               \A i \in ActiveIdx(run.mid) :
                   store[i].status = "retired" => StaleAndWeak(i)

\* at 31 days a record with trigger_count 2 is retired and one with 3 is
\* not; at 30 days a record with trigger_count 2 is not
C16_Witness ==
    /\ run.result = "committed"
    /\ \E i, j, k \in ActiveIdx(run.mid) :
          /\ now - run.mid[i].last_triggered = 31
          /\ run.mid[i].trigger_count = 2
          /\ store[i].status = "retired"
          /\ now - run.mid[j].last_triggered = 31
          /\ run.mid[j].trigger_count = 3
          /\ store[j].status = "active"
          /\ now - run.mid[k].last_triggered = 30
          /\ run.mid[k].trigger_count = 2
          /\ store[k].status = "active"

\* C17: a record that is retired is never active again: across every step,
\* a record id that was retired before it is retired after it.
C17_RetiredStaysRetired ==
    [][\A i \in DOMAIN store : \A j \in DOMAIN store' :
          (store[i].id = store'[j].id /\ store[i].status = "retired")
              => store'[j].status = "retired"]_vars

\* a commit left a retired record retired and created a new active record
\* for a candidate with the retired record's text
C17_Witness ==
    /\ run.result = "committed"
    /\ \E i, j \in DOMAIN store :
          /\ store[i].id = 105 /\ store[i].status = "retired"
          /\ store[j].rule = store[i].rule
          /\ store[j].status = "active"

\* C18: every record id present in the store before a step is present after
\* it; the pipeline never removes a record.
C18_NoRecordRemoved ==
    [][\A i \in DOMAIN store : \E j \in DOMAIN store' :
          store'[j].id = store[i].id]_vars

\* validation lets the candidate g through to step 4
Accepted(g) == SchemaValid(g) /\ PostGenValid(g)

\* C19: a generated rule is accepted by validation exactly when its word
\* count is between 15 and 150 inclusive: 15 and 150 words are accepted, 14
\* and 151 are rejected, a candidate that reaches the commit has a word
\* count in the range, and no record of the store has one outside it.
C19_WordCountWindow ==
    /\ \A n \in {14, 15, 150, 151} :
          Accepted(GenWords(n)) <=> (15 <= n /\ n <= 150)
    /\ run.phase = "commit" \/ run.result \in {"committed", "write_failed"}
          => (15 <= Len(run.cand.rule) /\ Len(run.cand.rule) <= 150)
    /\ \A i \in DOMAIN store :
          15 <= Len(store[i].rule) /\ Len(store[i].rule) <= 150

\* a candidate of 150 words was committed and is in the store
C19_Witness ==
    /\ run.result = "committed"
    /\ Len(run.cand.rule) = 150
    /\ \E i \in DOMAIN store : store[i].rule = run.cand.rule

\* C20: the completion service is called at most twice per event; a failure
\* of any class on the first attempt is followed by exactly one retry; a
\* failure on the second attempt abandons the event without raising and
\* leaves the store unchanged.
C20_OneRetry ==
    /\ [](/\ Len(run.got) <= 2
          /\ run.phase = "gen" => Len(run.got) <= 1
          /\ run.result = "abandoned" => Len(run.got) = 2)
    /\ [][/\ (run.phase = "gen" /\ Len(run.got) = 0 /\ Len(run'.got) = 1)
               => run'.phase = "gen"
          /\ (run.phase = "gen" /\ Len(run.got) = 1) => run'.phase # "gen"
          /\ (run.phase = "gen" /\ Len(run'.got) = 2)
               => /\ run'.phase = "idle"
                  /\ run'.result = "abandoned"
                  /\ store' = store]_vars

\* a transport error, then a rule that fails schema validation: abandoned
C20_Witness ==
    /\ run.result = "abandoned"
    /\ run.got = <<"transport", "schema">>
    /\ store # << >>

\* the gate turns the event e away: its query or response is shorter than
\* the minimum, or its verdict, in lower case, is not a negative one
TurnedAway(e) ==
    \/ e.query_len < 5
    \/ e.response_len < 5
    \/ LowerType(e.feedback_type)
          \notin {"thumbs_down", "negative", "dislike", "bad", "0", "false"}

\* C21: an event whose query or response is shorter than the minimum, or
\* whose verdict is not a negative one (compared case-insensitively), is a
\* no-op: no completion call, no read or write of the store, no reload of
\* the cache; the store is the same after the call as before it.
C21_GateNoOp ==
    /\ [](("query_len" \in DOMAIN run.ev /\ TurnedAway(run.ev))
            => run.phase = "idle" /\ run.did = {})
    /\ [][("query_len" \in DOMAIN run'.ev /\ TurnedAway(run'.ev))
            => store' = store]_vars

\* the second event had too short a response and was skipped
C21_Witness ==
    /\ run.result = "skipped"
    /\ run.ev.response_len < 5
    /\ run.ev.query_len >= 5
    /\ run.ev.feedback_type = "thumbs_down"
    /\ served = 2

\* the records of a rule list that have no stored embedding
WithoutEmbedding(rules) ==
    LET Bare(r) == Len(r.embedding) # EmbDim
    IN  SelectSeq(rules, Bare)

\* C32: when the embedding service is available and the candidate was
\* encoded, an active rule without stored embedding whose Jaccard overlap with
\* the candidate is at least 0.55 is still found: the dedup step selects a
\* duplicate.
C32_BareRuleComparedByKeywords ==
    [][(/\ run.phase = "commit" /\ run'.phase = "idle"
        /\ run'.path = "embedding"
        /\ KeywordDedup(run.cand.rule, WithoutEmbedding(store)) # NoId)
       => run'.dup # NoId]_vars

\* C33: reinforcing a duplicate changes exactly one record: its trigger_count
\* grows by 1, its confidence grows by 0.08 but not above 1.0, its
\* last_triggered becomes the current time; no record is added and, before
\* lifecycle maintenance, every other record is as it was read.
C33_ReinforceChangesOneRecord ==
    [][(run.phase = "commit" /\ run'.phase = "idle" /\ run'.dup # NoId)
       => /\ Len(run'.mid) = Len(store)
          /\ \E k \in DOMAIN store :
                /\ store[k].id = run'.dup
                /\ run'.mid[k].trigger_count = store[k].trigger_count + 1
                /\ run'.mid[k].confidence <= 1000
                /\ \/ run'.mid[k].confidence = store[k].confidence + 80
                   \/ /\ run'.mid[k].confidence = 1000
                      /\ store[k].confidence + 80 > 1000
                /\ run'.mid[k].last_triggered = now
                /\ \A f \in DOMAIN store[k] \ {"trigger_count", "confidence",
                                                "last_triggered"} :
                      run'.mid[k][f] = store[k][f]
                /\ \A i \in DOMAIN store \ {k} : run'.mid[i] = store[i]]_vars

\* a committed reinforcement that reached the cap of 1.0, next to a record it
\* left alone
C33_Witness ==
    /\ run.phase = "idle" /\ run.result = "committed"
    /\ run.dup # NoId
    /\ Len(run.mid) = 2
    /\ run.mid[1].id = run.dup
    /\ run.mid[1].confidence = 1000 /\ run.mid[1].trigger_count = 8
    /\ run.mid[1].last_triggered = now
    /\ run.mid[2].rule = TextB /\ run.mid[2].trigger_count = 1


----------------------------------------------------------------------------
(* get_relevant_rules: scoring, ordering, count limit and token budget.    *)
(* A rule text is here the sequence of its characters; scores are          *)
(* confidence (thousandths) times the weight in tenths.                    *)

MaxRulesSmall == 5
MaxRulesLarge == 7
WeightExact == 10
WeightGeneral == 6
WeightOther == 3
DefaultConfidence == 500
CharsPerToken == 4
TokenBudget == 150   \* token_budget, by default

\* [r for r in self._rules if r.get("status") == "active"]
ActiveRules(rules) ==
    SelectSeq(rules, LAMBDA r : "status" \in DOMAIN r /\ r.status = "active")

\* a text of n characters
Chars(n) == [i \in 1..n |-> "x"]

InSeq(x, q) == \E i \in DOMAIN q : q[i] = x

\* faulty variant of Score: a rule tagged general counts in full
ScoreGeneralInFull(rule, query_type) ==
    LET conf == IF "confidence" \in DOMAIN rule THEN rule.confidence
                ELSE DefaultConfidence
        qtypes == IF "query_types" \in DOMAIN rule THEN rule.query_types
                  ELSE <<"general">>
    IN  IF InSeq(query_type, qtypes) \/ InSeq("general", qtypes)
        THEN conf * WeightExact
        ELSE conf * WeightOther

\* score(rule) of get_relevant_rules
Score(rule, query_type) ==
    LET conf == IF "confidence" \in DOMAIN rule THEN rule.confidence
                ELSE DefaultConfidence
        qtypes == IF "query_types" \in DOMAIN rule THEN rule.query_types
                  ELSE <<"general">>
    IN  IF InSeq(query_type, qtypes) THEN conf * WeightExact
        ELSE IF InSeq("general", qtypes) THEN conf * WeightGeneral
        ELSE conf * WeightOther

\* sorted(active, key=score, reverse=True): the sort is stable, so rules of
\* equal score keep their order
Scored(active, query_type) ==
    LET pos(i) == Cardinality({j \in DOMAIN active :
                     \/ Score(active[j], query_type) > Score(active[i], query_type)
                     \/ /\ Score(active[j], query_type) = Score(active[i], query_type)
                        /\ j < i}) + 1
    IN  [k \in DOMAIN active |-> active[CHOOSE i \in DOMAIN active : pos(i) = k]]

\* max_rules
MaxRules(model_size) == IF model_size = "4B" THEN MaxRulesSmall ELSE MaxRulesLarge

\* len(rule.get("rule", "")) / 4.0, in quarter tokens
RuleTokens(rule) == IF "rule" \in DOMAIN rule THEN Len(rule.rule) ELSE 0

\* faulty variant of WithinBudget: a rule that does not fit is skipped and
\* the loop goes on to the next one
RECURSIVE WithinBudgetSkipping(_, _, _)
WithinBudgetSkipping(scored, token_count, token_budget) ==
    IF scored = << >> THEN << >>
    ELSE IF token_count + RuleTokens(Head(scored)) <= CharsPerToken * token_budget
    THEN <<Head(scored)>> \o
         WithinBudgetSkipping(Tail(scored),
                              token_count + RuleTokens(Head(scored)), token_budget)
    ELSE WithinBudgetSkipping(Tail(scored), token_count, token_budget)

\* the token loop: rules are taken in order until one does not fit
RECURSIVE WithinBudget(_, _, _)
WithinBudget(scored, token_count, token_budget) ==
    IF scored = << >> THEN << >>
    ELSE IF token_count + RuleTokens(Head(scored)) <= CharsPerToken * token_budget
    THEN <<Head(scored)>> \o
         WithinBudget(Tail(scored),
                      token_count + RuleTokens(Head(scored)), token_budget)
    ELSE << >>

\* get_relevant_rules after the cache check, on the cached active rules
SelectRules(active, query_type, token_budget, model_size) ==
    IF active = << >> THEN << >>
    ELSE LET scored == Scored(active, query_type)
             top == SubSeq(scored, 1,
                           IF Len(scored) < MaxRules(model_size)
                           THEN Len(scored) ELSE MaxRules(model_size))
         IN  WithinBudget(top, 0, token_budget)


----------------------------------------------------------------------------
(* One get_relevant_rules computation on a loaded document: _load filters  *)
(* the active records, get_relevant_rules selects from them.               *)

MaxList == 11        \* records of the longest cached document

\* record i of the documents the selection is run on: every fourth one is
\* retired, the last one carries only id and status
SampleRule(i) ==
    IF i = MaxList THEN [id |-> i, status |-> "active"]
    ELSE [id |-> i,
          status |-> IF i % 4 = 0 THEN "retired" ELSE "active",
          confidence |-> 950 - 100 * ((i * 3) % 7),
          query_types |-> IF i % 3 = 0 THEN <<"factual">>
                          ELSE IF i % 3 = 1 THEN <<"general">>
                          ELSE <<"technical", "general">>,
          rule |-> IF i = 5 THEN Chars(400)
                   ELSE IF i = 7 THEN Chars(40) ELSE Chars(160)]

\* the documents: every run of consecutive sample records, and no record
SampleLists ==
    {[k \in 1..(b - a + 1) |-> SampleRule(a + k - 1)] :
        a \in 1..MaxList, b \in 0..MaxList} \cup {<< >>}

QueryTypes == {"general", "factual", "technical"}
TokenBudgets == {20, 90, TokenBudget, 400}
ModelSizes == {"4B", "8B"}

\* the call returns
select_rules ==
    /\ sel.pc = "called"
    /\ sel' = [sel EXCEPT
                 !.pc = "returned",
                 !.out = SelectRules(ActiveRules(sel.rules), sel.query_type,
                                     sel.token_budget, sel.model_size)]
    /\ UNCHANGED <<agentVars, pipeVars, gm, mig, txt>>

SelInit ==
    /\ AgentInit
    /\ embReady
    /\ store = << >>
    /\ run = NoRun
    /\ served = 0
    /\ gm = NoGm
    /\ mig = NoMig
    /\ txt = NoTxt
    /\ sel \in [pc : {"called"}, rules : SampleLists, query_type : QueryTypes,
                token_budget : TokenBudgets, model_size : ModelSizes,
                out : {<< >>}]

SelNext == select_rules

SelSpec == SelInit /\ [][SelNext]_vars

----------------------------------------------------------------------------
(* The read cache: GuidelinesManager, the coroutines that call             *)
(* get_relevant_rules and force_reload on the event loop, the worker       *)
(* threads that run _load, and the store file they read.  A caller takes   *)
(* the asyncio.Lock when its call begins and holds it until the call ends. *)

NCallers == 2        \* calls of get_relevant_rules and force_reload in one run
MaxTicks == 2        \* half TTL windows the monotonic clock advances
MaxChanges == 2      \* times the store file is replaced, deleted or damaged

CacheTtl == 60       \* cache_ttl_seconds

Callers == 1..NCallers
Tick == CacheTtl \div 2

\* the rules of the v-th document put at the store path: an active record
\* and a retired one
DiskRules(v) ==
    << [id |-> v, status |-> "active", confidence |-> 800,
        query_types |-> <<"factual">>, rule |-> Chars(8)],
       [id |-> v + 10, status |-> "retired", confidence |-> 900,
        query_types |-> <<"general">>, rule |-> Chars(8)] >>

\* a call that has not begun; a call that has ended leaves only its way of
\* ending, and gm.last tells what the latest ended call did
IdleCall == [pc |-> "idle", kind |-> "none", now |-> 0, query_type |-> "none"]
EndedCall(how) == [IdleCall EXCEPT !.pc = how]
NoLast == [kind |-> "none", stat |-> FALSE, res |-> << >>]

\* GuidelinesManager.__init__ on a store file in state d, _load included
Constructed(d) ==
    [disk |-> d,
     rules |-> IF d.st = "ok" THEN DiskRules(d.ver) ELSE << >>,
     active |-> IF d.st = "ok" THEN ActiveRules(DiskRules(d.ver)) ELSE << >>,
     mtime |-> IF d.st = "ok" THEN d.ver ELSE 0,
     check |-> 0,
     loaded |-> d.st # "corrupt",
     lock |-> 0,
     clock |-> CacheTtl,
     call |-> [c \in Callers |-> IdleCall],
     last |-> NoLast,
     jobs |-> {},
     statAt |-> 0,
     cancelled |-> FALSE]

\* faulty variant of TtlElapsed: the modification time is checked on every call
TtlAlwaysElapsed(now_, last) == now_ - last >= 0

\* (now - self._last_check_time) >= self._cache_ttl
TtlElapsed(now_, last) == now_ - last >= CacheTtl

\* faulty variant of CheckCatches: the handler is missing
CheckCatchesNothing(exc) == exc = "none"

\* `except FileNotFoundError` around the modification-time check
CheckCatches(exc) == exc = "FileNotFoundError"

\* faulty variant of KeptOnFailure: a failed load empties the cache
ClearedOnFailure(loaded, cached) == SubSeq(cached, 1, 0)

\* the except branches of _load: the previous cache is kept, unless nothing
\* was loaded so far
KeptOnFailure(loaded, cached) == IF loaded THEN cached ELSE << >>

CacheRest == UNCHANGED <<agentVars, pipeVars, sel, mig, txt>>

\* the next call starts: calls take the lock in the order of their numbers
MayBegin(c) ==
    /\ gm.call[c].pc = "idle"
    /\ \A d \in Callers : d < c => gm.call[d].pc # "idle"
    /\ gm.lock = 0

\* the job a caller hands to run_in_executor(None, self._load)
NewJob(c) == [owner |-> c, at |-> "queued", mtime |-> 0, data |-> << >>]

\* get_relevant_rules from `async with self._lock` to its first await, or
\* to its return when no reload is needed
get_relevant_rules(c, qt) ==
    /\ MayBegin(c)
    /\ LET now_ == gm.clock
           due == TtlElapsed(now_, gm.check)
           found == gm.disk.st # "missing"       \* else FileNotFoundError
           reload == due /\ found /\ gm.disk.ver # gm.mtime
       IN  IF due /\ ~ found /\ ~ CheckCatches("FileNotFoundError")
           THEN gm' = [gm EXCEPT !.statAt = now_,
                                 !.call[c] = EndedCall("raised")]
           ELSE IF reload
           THEN gm' = [gm EXCEPT !.lock = c,
                                 !.statAt = now_,
                                 !.jobs = @ \cup {NewJob(c)},
                                 !.call[c] = [pc |-> "reload", kind |-> "get",
                                              now |-> now_, query_type |-> qt]]
           ELSE gm' = [gm EXCEPT !.check = IF due THEN now_ ELSE @,
                                 !.statAt = IF due THEN now_ ELSE @,
                                 !.call[c] = EndedCall("done"),
                                 !.last = [kind |-> "get", stat |-> due,
                                           res |-> SelectRules(gm.active, qt,
                                                       TokenBudget, ModelSize)]]
    /\ CacheRest

\* get_relevant_rules resumes after `await self._async_reload()`
get_resumes(c) ==
    /\ gm.call[c].pc = "reload"
    /\ gm.call[c].kind = "get"
    /\ \E j \in gm.jobs :
          /\ j.owner = c
          /\ j.at = "end"
          /\ gm' = [gm EXCEPT !.jobs = @ \ {j},
                              !.check = gm.call[c].now,
                              !.lock = 0,
                              !.call[c] = EndedCall("done"),
                              !.last = [kind |-> "get", stat |-> TRUE,
                                        res |-> SelectRules(gm.active,
                                                    gm.call[c].query_type,
                                                    TokenBudget, ModelSize)]]
    /\ CacheRest

\* force_reload up to `await self._async_reload()`.  The reflection task
\* calls it when its os.replace has put a document at the store path.
force_reload(c) ==
    /\ MayBegin(c)
    /\ gm.disk.st = "ok"
    /\ gm' = [gm EXCEPT !.lock = c,
                        !.jobs = @ \cup {NewJob(c)},
                        !.call[c] = [IdleCall EXCEPT !.kind = "force",
                                                     !.pc = "reload"]]
    /\ CacheRest

\* force_reload resumes: the TTL timer is reset to the present time
force_resumes(c) ==
    /\ gm.call[c].pc = "reload"
    /\ gm.call[c].kind = "force"
    /\ \E j \in gm.jobs :
          /\ j.owner = c
          /\ j.at = "end"
          /\ gm' = [gm EXCEPT !.jobs = @ \ {j},
                              !.check = gm.clock,
                              !.lock = 0,
                              !.call[c] = EndedCall("done"),
                              !.last = [NoLast EXCEPT !.kind = "force"]]
    /\ CacheRest

\* the reflection task is cancelled by await_pending_tasks while it awaits
\* force_reload: CancelledError leaves `async with`, the lock is released;
\* the job goes on in its thread unless no worker had picked it up
force_cancelled(c, keep) ==
    /\ gm.call[c].pc = "reload"
    /\ gm.call[c].kind = "force"
    /\ ~ gm.cancelled
    /\ \E j \in gm.jobs :
          /\ j.owner = c
          /\ gm' = [gm EXCEPT
                      !.jobs = IF j.at = "queued" /\ ~ keep THEN @ \ {j}
                               ELSE IF j.at = "end" THEN @ \ {j}
                               ELSE (@ \ {j}) \cup {[j EXCEPT !.owner = 0]},
                      !.lock = 0,
                      !.cancelled = TRUE,
                      !.call[c] = EndedCall("done")]
    /\ CacheRest

\* a job that ended: its awaiting caller finds it, nobody else does
Ended(j) == IF j.owner = 0 THEN {} ELSE {[j EXCEPT !.at = "end"]}

\* _load: os.path.exists and os.path.getmtime
load_stat ==
    /\ \E j \in gm.jobs :
      /\ j.at = "queued"
      /\ gm' = [gm EXCEPT !.jobs = (@ \ {j}) \cup
                  {IF gm.disk.st = "missing" THEN [j EXCEPT !.at = "gone"]
                   ELSE [j EXCEPT !.at = "stat", !.mtime = gm.disk.ver]}]
      /\ CacheRest

\* _load: open and json.load.  FileNotFoundError and JSONDecodeError end the
\* job with the previous cache kept (an empty one if nothing was loaded yet)
load_read ==
    /\ \E j \in gm.jobs :
      /\ j.at = "stat"
      /\ IF gm.disk.st = "ok"
         THEN gm' = [gm EXCEPT !.jobs = (@ \ {j}) \cup
                       {[j EXCEPT !.at = "read", !.data = DiskRules(gm.disk.ver)]}]
         ELSE gm' = [gm EXCEPT !.jobs = (@ \ {j}) \cup Ended(j),
                               !.rules = KeptOnFailure(gm.loaded, @),
                               !.active = KeptOnFailure(gm.loaded, @)]
      /\ CacheRest

\* _load: self._rules = ... (the empty list when the file does not exist)
load_set_rules ==
    /\ \E j \in gm.jobs :
      /\ j.at \in {"read", "gone"}
      /\ gm' = [gm EXCEPT !.jobs = (@ \ {j}) \cup
                              {[j EXCEPT !.at = IF j.at = "read" THEN "rules"
                                                ELSE "gone_rules"]},
                          !.rules = IF j.at = "read" THEN j.data ELSE << >>]
      /\ CacheRest

\* _load: self._active_rules = ..., computed from self._rules as it is at
\* that moment; when the file does not exist, the empty list,
\* self._loaded = True and return
load_set_active ==
    /\ \E j \in gm.jobs :
      /\ j.at \in {"rules", "gone_rules"}
      /\ IF j.at = "rules"
         THEN gm' = [gm EXCEPT !.jobs = (@ \ {j}) \cup {[j EXCEPT !.at = "active"]},
                               !.active = ActiveRules(gm.rules)]
         ELSE gm' = [gm EXCEPT !.jobs = (@ \ {j}) \cup Ended(j),
                               !.active = << >>,
                               !.loaded = TRUE]
      /\ CacheRest

\* _load: self._last_mtime = mtime; self._loaded = True
load_set_mtime ==
    /\ \E j \in gm.jobs :
      /\ j.at = "active"
      /\ gm' = [gm EXCEPT !.jobs = (@ \ {j}) \cup Ended(j),
                          !.mtime = j.mtime,
                          !.loaded = TRUE]
      /\ CacheRest

\* a reflection task is inside force_reload and holds the write semaphore
WriterBusy ==
    \E c \in Callers : gm.call[c].pc = "reload" /\ gm.call[c].kind = "force"

\* a commit of the reflection agent puts a new document at the store path
store_replaced ==
    /\ gm.disk.ver < MaxChanges + 1
    /\ ~ WriterBusy
    /\ gm' = [gm EXCEPT !.disk = [st |-> "ok", ver |-> gm.disk.ver + 1]]
    /\ CacheRest

\* the store file is deleted, or overwritten with text that is not JSON
store_lost(st) ==
    /\ gm.disk.ver < MaxChanges + 1
    /\ gm.disk.st # st
    /\ gm' = [gm EXCEPT !.disk = [st |-> st,
                                  ver |-> IF st = "corrupt" THEN gm.disk.ver + 1
                                          ELSE gm.disk.ver]]
    /\ CacheRest

\* time.monotonic() advances by half a TTL window
clock_ticks ==
    /\ gm.clock < CacheTtl + MaxTicks * Tick
    /\ gm' = [gm EXCEPT !.clock = @ + Tick]
    /\ CacheRest

CacheInit ==
    /\ AgentInit
    /\ embReady
    /\ store = << >>
    /\ run = NoRun
    /\ served = 0
    /\ gm \in {Constructed([st |-> st, ver |-> 1]) : st \in {"ok", "missing", "corrupt"}}
    /\ sel = NoSel
    /\ mig = NoMig
    /\ txt = NoTxt

CacheNext ==
    \/ \E c \in Callers, qt \in {"general", "factual"} : get_relevant_rules(c, qt)
    \/ \E c \in Callers : get_resumes(c)
    \/ \E c \in Callers : force_reload(c)
    \/ \E c \in Callers : force_resumes(c)
    \/ \E c \in Callers, keep \in BOOLEAN : force_cancelled(c, keep)
    \/ load_stat
    \/ load_read
    \/ load_set_rules
    \/ load_set_active
    \/ load_set_mtime
    \/ store_replaced
    \/ \E st \in {"missing", "corrupt"} : store_lost(st)
    \/ clock_ticks

CacheSpec == CacheInit /\ [][CacheNext]_vars


----------------------------------------------------------------------------
(* Start-up: run_schema_migration, run to its end in one step, with the    *)
(* outcome of every file operation and of encode() as an input.            *)

MaxRuns == 2         \* start-ups in one run of the model

\* what can be at a path besides a JSON object
Missing == [k |-> "missing"]
Corrupt == [k |-> "corrupt"]         \* not JSON, or a file written in part
JsonArray == [k |-> "array"]         \* JSON, but a list at the top level

EmptyV2 == [schema_version |-> "2.0", rules |-> << >>]

\* legacy entries: bare strings (one of them blank), partial objects, and a
\* number
LegacyEntries ==
    << [t |-> "str", text |-> TextA],
       [t |-> "str", text |-> << >>],
       [t |-> "dict", rule |-> TextB, confidence |-> 700, status |-> "retired"],
       [t |-> "dict", guideline |-> TextA2],
       [t |-> "other"] >>

\* the stores a start-up can find
StartFiles ==
    { Missing, Corrupt, JsonArray,
      [guidelines |-> LegacyEntries],
      [guidelines |-> << >>],
      [rules |-> SubSeq(LegacyEntries, 3, 5)],
      EmptyV2,
      [schema_version |-> "2.0",
       rules |-> << [id |-> 301, user_id |-> "default", rule |-> TextA,
                     embedding |-> NoEmb, confidence |-> 800,
                     trigger_count |-> 4, query_types |-> <<"general">>,
                     language_hint |-> "auto", last_triggered |-> 0,
                     status |-> "active"] >>] }

\* faulty variant of IsV2: no version is taken for the current one
IsV2Never(f) == "schema_version" \in DOMAIN f /\ f.schema_version = "never"

\* existing.get("schema_version") == "2.0"
IsV2(f) == "schema_version" \in DOMAIN f /\ f.schema_version = "2.0"

\* isinstance(raw, str), isinstance(raw, dict)
IsStr(raw) == "t" \in DOMAIN raw /\ raw.t = "str"
IsDict(raw) == "t" \notin DOMAIN raw \/ raw.t = "dict"

\* the rule text of a legacy entry; blank when there is none
LegacyTextOf(raw) ==
    IF IsStr(raw) THEN raw.text
    ELSE IF "rule" \in DOMAIN raw THEN raw.rule
    ELSE IF "guideline" \in DOMAIN raw THEN raw.guideline
    ELSE << >>

\* faulty variant of MigrateRule: the fields the entry has are not taken over
MigrateRuleAllDefaults(raw, i, encOk) ==
    [id |-> 200 + i,
     user_id |-> "default",
     rule |-> LegacyTextOf(raw),
     embedding |-> IF encOk THEN Encode(LegacyTextOf(raw), embReady) ELSE NoEmb,
     confidence |-> DefaultConfidence,
     trigger_count |-> 1,
     query_types |-> <<"general">>,
     language_hint |-> "auto",
     last_triggered |-> now,
     status |-> "active"]

\* step 4 for one entry: the v2 record (i stands for the fresh uuid4)
MigrateRule(raw, i, encOk) ==
    [id |-> 200 + i,
     user_id |-> "default",
     rule |-> LegacyTextOf(raw),
     embedding |-> IF encOk THEN Encode(LegacyTextOf(raw), embReady) ELSE NoEmb,
     confidence |-> IF "confidence" \in DOMAIN raw THEN raw.confidence
                    ELSE DefaultConfidence,
     trigger_count |-> IF "trigger_count" \in DOMAIN raw THEN raw.trigger_count
                       ELSE 1,
     query_types |-> IF "query_types" \in DOMAIN raw THEN raw.query_types
                     ELSE <<"general">>,
     language_hint |-> IF "language_hint" \in DOMAIN raw THEN raw.language_hint
                       ELSE "auto",
     last_triggered |-> IF "last_triggered" \in DOMAIN raw THEN raw.last_triggered
                        ELSE now,
     status |-> IF "status" \in DOMAIN raw THEN raw.status ELSE "active"]

\* step 4: entries that are neither text nor object, and blank texts, are
\* passed over
RECURSIVE MigrateAll(_, _, _)
MigrateAll(raws, i, encOk) ==
    IF raws = << >> THEN << >>
    ELSE IF ~ (IsStr(Head(raws)) \/ IsDict(Head(raws))) \/ LegacyTextOf(Head(raws)) = << >>
    THEN MigrateAll(Tail(raws), i + 1, encOk)
    ELSE <<MigrateRule(Head(raws), i, encOk)>> \o MigrateAll(Tail(raws), i + 1, encOk)

\* the asserts on the temp file
TempValid(doc) ==
    /\ IsV2(doc)
    /\ \A i \in DOMAIN doc.rules :
          {"id", "user_id", "rule", "confidence", "status"} \subseteq DOMAIN doc.rules[i]

\* faulty variant of Guarded: the last-resort write has no handler
GuardedButLast(step) == step \in {"restore", "cleanup"}

\* the steps of the except branch that have a try of their own
Guarded(step) == step \in {"restore", "cleanup", "last"}

\* what a write to a path leaves there: the content, the file as it was
\* (the failure came before the file was opened), or a file written in part
Written(how, before, content) ==
    IF how = "ok" THEN content ELSE IF how = "kept" THEN before ELSE Corrupt

WriteOutcomes == {"ok", "kept", "torn"}

MigFaults ==
    [backup : WriteOutcomes, enc : BOOLEAN, temp : WriteOutcomes,
     valid : BOOLEAN, rename : BOOLEAN, restore : WriteOutcomes,
     cleanup : BOOLEAN, last : WriteOutcomes, direct : WriteOutcomes]

\* the except branch: restore from the backup if there is one, remove the
\* temp file, write the empty v2 document
MigrationFailed(store_, temp_, backup_, made, f) ==
    LET restored == IF made /\ backup_ # Missing
                    THEN Written(f.restore, store_, backup_) ELSE store_
        raised == \/ made /\ backup_ # Missing /\ f.restore # "ok" /\ ~ Guarded("restore")
                  \/ temp_ # Missing /\ ~ f.cleanup /\ ~ Guarded("cleanup")
                  \/ f.last # "ok" /\ ~ Guarded("last")
    IN  [store |-> Written(f.last, restored, EmptyV2),
         temp |-> IF f.cleanup THEN Missing ELSE temp_,
         backup |-> backup_,
         pc |-> IF raised THEN "raised" ELSE "returned",
         made |-> made,
         last |-> IF f.last = "ok" THEN "ok" ELSE "failed",
         rest |-> IF made /\ backup_ # Missing
                  THEN IF f.restore = "ok" THEN "ok" ELSE "failed"
                  ELSE "none",
         runs |-> mig.runs + 1]

\* run_schema_migration
run_schema_migration(f) ==
    /\ mig.runs < MaxRuns
    /\ LET s == mig.store
           same == [mig EXCEPT !.pc = "returned", !.made = FALSE, !.last = "none",
                                !.rest = "none", !.runs = @ + 1]
           existing == IF s = Corrupt THEN [guidelines |-> << >>] ELSE s
           backup_ == Written(f.backup, Missing, s)
           raws == IF "guidelines" \in DOMAIN existing THEN existing.guidelines
                   ELSE IF "rules" \in DOMAIN existing THEN existing.rules
                   ELSE << >>
           new_data == [schema_version |-> "2.0",
                        rules |-> MigrateAll(raws, 1, f.enc)]
           temp_ == Written(f.temp, mig.temp, new_data)
       IN  mig' =
             IF s # Missing /\ s # Corrupt /\ s # JsonArray /\ IsV2(s)
             THEN same
             ELSE IF s = Missing
             THEN IF f.direct = "ok"
                  THEN [same EXCEPT !.store = EmptyV2]
                  ELSE MigrationFailed(Written(f.direct, s, EmptyV2), mig.temp,
                                       mig.backup, FALSE, f)
             ELSE IF s = JsonArray
             THEN MigrationFailed(s, mig.temp, mig.backup, FALSE, f)
             ELSE IF f.temp # "ok" \/ ~ f.valid \/ ~ TempValid(new_data) \/ ~ f.rename
             THEN MigrationFailed(s, temp_, backup_, TRUE, f)
             ELSE [same EXCEPT !.store = new_data, !.backup = backup_, !.made = TRUE]
    /\ UNCHANGED <<agentVars, pipeVars, gm, sel, txt>>

MigInit ==
    /\ AgentInit
    /\ store = << >>
    /\ run = NoRun
    /\ served = 0
    /\ gm = NoGm
    /\ sel = NoSel
    /\ txt = NoTxt
    /\ mig \in [store : StartFiles, temp : {Missing}, backup : {Missing},
                pc : {"idle"}, made : {FALSE}, last : {"none"}, rest : {"none"},
                runs : {0}]

MigNext == \E f \in MigFaults : run_schema_migration(f)

MigSpec == MigInit /\ [][MigNext]_vars

----------------------------------------------------------------------------
(* Rule generation: what _generate_rule makes of one completion text.  A   *)
(* text is a sequence of tokens: an opening brace, a closing brace, "r"    *)
(* for the members of a rule object, "p" for a word of prose.              *)

MaxText == 6         \* tokens in a completion text

Tokens == {"{", "}", "r", "p"}

\* opening minus closing braces among the first i tokens
Depth(s, i) ==
    Cardinality({k \in 1..i : s[k] = "{"}) - Cardinality({k \in 1..i : s[k] = "}"})

\* json.loads accepts s and returns an object: braces balanced, closed by
\* the last token only, no prose
IsJsonObject(s) ==
    /\ s # << >>
    /\ s[1] = "{"
    /\ \A i \in 1..Len(s) : s[i] # "p"
    /\ \A i \in 1..(Len(s) - 1) : Depth(s, i) >= 1
    /\ Depth(s, Len(s)) = 0

\* GeneratedRule.model_validate: the object itself has the rule's members
IsRuleObject(s) ==
    IsJsonObject(s) /\ \E i \in 1..Len(s) : s[i] = "r" /\ Depth(s, i) = 1

\* re.search(r"\{[\s\S]*\}", raw_text): from the first opening brace to the
\* last closing brace after it; << >> when there is no match
JsonMatch(s) ==
    LET opens == {i \in 1..Len(s) : s[i] = "{"}
        a == Min(opens)
        closes == {i \in 1..Len(s) : s[i] = "}" /\ i > a}
    IN  IF opens = {} \/ closes = {} THEN << >>
        ELSE SubSeq(s, a, CHOOSE b \in closes : \A c \in closes : c <= b)

\* one attempt of _generate_rule on the completion text raw_text
ParseCompletion(raw_text) ==
    LET json_match == JsonMatch(raw_text)
        data == IF json_match # << >> THEN json_match ELSE raw_text
    IN  IF IsRuleObject(data) THEN "accepted" ELSE "failed"

\* the completion call of one attempt has returned
completion_parsed ==
    /\ txt.out = "none"
    /\ txt' = [txt EXCEPT !.out = ParseCompletion(txt.raw)]
    /\ UNCHANGED <<agentVars, pipeVars, gm, sel, mig>>

RECURSIVE TextsOf(_)
TextsOf(n) ==
    IF n = 0 THEN {<< >>}
    ELSE LET shorter == TextsOf(n - 1)
         IN  shorter \cup {Append(s, t) : s \in {u \in shorter : Len(u) = n - 1},
                                          t \in Tokens}

ParseInit ==
    /\ AgentInit
    /\ embReady
    /\ store = << >>
    /\ run = NoRun
    /\ served = 0
    /\ gm = NoGm
    /\ sel = NoSel
    /\ mig = NoMig
    /\ txt \in [raw : TextsOf(MaxText), out : {"none"}]

ParseNext == completion_parsed

ParseSpec == ParseInit /\ [][ParseNext]_vars

----------------------------------------------------------------------------
(* Properties of the start-up migration *)

\* C29: a run of the migrator on a store that is already schema version 2.0
\* changes nothing: the store file is the same afterwards, no backup is made,
\* no temp file is left, and the run returns normally.
C29_V2RunIsNoOp ==
    [][(mig.store \notin {Missing, Corrupt, JsonArray}
          /\ "schema_version" \in DOMAIN mig.store
          /\ mig.store.schema_version = "2.0")
       => /\ mig'.store = mig.store
          /\ mig'.backup = mig.backup
          /\ mig'.temp = mig.temp
          /\ ~ mig'.made
          /\ mig'.pc = "returned"]_vars

\* a second run after a first one that migrated two legacy entries and made
\* its backup
C29_Witness ==
    /\ mig.runs = 2
    /\ mig.pc = "returned"
    /\ ~ mig.made
    /\ mig.backup = [rules |-> SubSeq(LegacyEntries, 3, 5)]
    /\ mig.temp = Missing
    /\ "schema_version" \in DOMAIN mig.store
    /\ Len(mig.store.rules) = 2

\* a well-formed schema 2.0 document
WellFormedV2(f) ==
    /\ f \notin {Missing, Corrupt, JsonArray}
    /\ "schema_version" \in DOMAIN f /\ f.schema_version = "2.0"
    /\ "rules" \in DOMAIN f
    /\ \A i \in DOMAIN f.rules :
          {"id", "user_id", "rule", "confidence", "status"} \subseteq DOMAIN f.rules[i]

\* C30: run_schema_migration never raises: whatever the store held and
\* whichever of backup, embedding, temp write, validation and rename failed,
\* it returns normally, and unless the last-resort write failed the store is
\* a well-formed schema 2.0 document afterwards.
C30_NeverRaises ==
    mig.pc # "idle" =>
        /\ mig.pc = "returned"
        /\ mig.last # "failed" => WellFormedV2(mig.store)

\* a run on a v1 store that failed after its backup and ended with the
\* last-resort write
C30_Witness ==
    /\ mig.runs = 1
    /\ mig.pc = "returned"
    /\ mig.made
    /\ mig.backup = [guidelines |-> LegacyEntries]
    /\ mig.last = "ok"
    /\ mig.store = EmptyV2

\* C31: after a migration that failed once its backup was written and whose
\* restore from that backup succeeded, the store holds the backed-up content
\* (the empty v2 document is written only when the restore is not possible).
C31_RestoredStoreKept ==
    (mig.pc # "idle" /\ mig.made /\ mig.rest = "ok") => mig.store = mig.backup

\* the step is a migration of a v1 document that reached os.replace
MigratesV1 ==
    /\ mig.store \notin {Missing, Corrupt, JsonArray}
    /\ "schema_version" \notin DOMAIN mig.store
    /\ mig'.made /\ mig'.last = "none" /\ mig'.pc = "returned"

\* the legacy entries of the v1 document
LegacyOf(doc) ==
    IF "guidelines" \in DOMAIN doc THEN doc.guidelines ELSE doc.rules

\* out is one full v2 record for each of entries, in their order
FullRecordsOf(out, entries) ==
    /\ Len(out) = Len(entries)
    /\ \A i, k \in DOMAIN out : i # k => out[i].id # out[k].id
    /\ \A i \in DOMAIN out :
          LET raw == entries[i]
              Default(f, d) == IF f \in DOMAIN raw THEN out[i][f] = raw[f]
                               ELSE out[i][f] = d
          IN  /\ DOMAIN out[i] = {"id", "user_id", "rule", "embedding",
                                  "confidence", "trigger_count", "query_types",
                                  "language_hint", "last_triggered", "status"}
              /\ out[i].rule = LegacyTextOf(raw)
              /\ Default("confidence", 500)
              /\ Default("trigger_count", 1)
              /\ Default("query_types", <<"general">>)
              /\ Default("status", "active")
              /\ Default("language_hint", "auto")

\* C36 as stated: migrating a v1 store yields one full v2 record for each
\* legacy entry (bare string or partial object), in the same order, so the
\* number of records equals the number of legacy entries.
C36_Original ==
    [][MigratesV1 =>
          LET IsEntry(raw) == IsStr(raw) \/ IsDict(raw)
          IN  FullRecordsOf(mig'.store.rules,
                            SelectSeq(LegacyOf(mig.store), IsEntry))]_vars

\* C36: migrating a v1 store yields one full v2 record for each legacy
\* entry (bare string or partial object) that has a rule text, in the same
\* order, with a fresh unique id, the fields the entry has taken over and the
\* missing ones defaulted; entries whose text is blank or absent are passed
\* over, so the number of records is the number of entries with a text.
C36_OneRecordPerTextEntry ==
    [][MigratesV1 =>
          LET HasText(raw) == (IsStr(raw) \/ IsDict(raw))
                                /\ LegacyTextOf(raw) # << >>
          IN  FullRecordsOf(mig'.store.rules,
                            SelectSeq(LegacyOf(mig.store), HasText))]_vars

\* five legacy entries, one of them a blank string and one a number, were
\* migrated to three records
C36_Witness ==
    /\ mig.runs = 1
    /\ mig.made /\ mig.last = "none" /\ mig.pc = "returned"
    /\ mig.backup = [guidelines |-> LegacyEntries]
    /\ "schema_version" \in DOMAIN mig.store
    /\ Len(mig.store.rules) = 3
    /\ mig.store.rules[2].status = "retired"
    /\ mig.store.rules[3].rule = TextA2

----------------------------------------------------------------------------
(* Properties of the rule generation *)

\* the first balanced object of a text: from the first opening brace to the
\* closing brace that brings the depth back to zero; << >> when there is none
FirstBalanced(s) ==
    LET opens == {i \in 1..Len(s) : s[i] = "{"}
        a == Min(opens)
        ends == {i \in 1..Len(s) : i > a /\ Depth(s, i) = Depth(s, a) - 1}
    IN  IF opens = {} \/ ends = {} THEN << >>
        ELSE SubSeq(s, a, Min(ends))

\* C37: a completion text whose first balanced JSON object is a valid rule
\* object is accepted on that attempt, whatever prose, braces or further
\* objects stand before and after the object.
C37_FirstBalancedObjectParsed ==
    (txt.out # "none" /\ IsRuleObject(FirstBalanced(txt.raw))) => txt.out = "accepted"

----------------------------------------------------------------------------
(* Properties of the read cache *)

\* the step is the beginning of get_relevant_rules call c
GetBegins(c) ==
    /\ gm.call[c].pc = "idle"
    /\ \/ gm'.call[c].pc = "reload" /\ gm'.call[c].kind = "get"
       \/ gm'.call[c].pc \in {"done", "raised"}

\* ... in which os.path.getmtime was called
GetChecks(c) ==
    /\ GetBegins(c)
    /\ \/ gm'.call[c].pc \in {"reload", "raised"}
       \/ gm'.last.stat

\* the step is the return of get_relevant_rules call c
GetEnds(c) ==
    /\ \/ gm.call[c].pc = "idle"
       \/ gm.call[c].pc = "reload" /\ gm.call[c].kind = "get"
    /\ gm'.call[c].pc = "done"

\* C23: across all get_relevant_rules calls the modification time of the
\* store file is checked at most once per TTL window (two checks are at
\* least one TTL apart), and a call hands the file to _load only after a
\* check that found a modification time other than the cached one.
C23_OneCheckPerWindow ==
    [][\A c \in Callers :
          /\ GetChecks(c) => gm.clock - gm.statAt >= CacheTtl
          /\ (GetBegins(c) /\ gm'.call[c].pc = "reload") =>
                /\ GetChecks(c)
                /\ gm.disk.st # "missing"
                /\ gm.disk.ver # gm.mtime]_vars

\* two calls were made in one TTL window: the first checked the
\* modification time, the second did not
C23_Witness ==
    /\ \A c \in Callers : gm.call[c].pc = "done"
    /\ gm.last.kind = "get"
    /\ ~ gm.last.stat
    /\ gm.statAt = gm.clock
    /\ ~ gm.cancelled


\* what a call can return from the cached active rules
Served(active) ==
    {SelectRules(active, qt, TokenBudget, ModelSize) : qt \in {"general", "factual"}}

\* the step is the end of a _load that could not read the file (it vanished
\* after the modification time was taken, or it is not JSON)
LoadFails ==
    \E j \in gm.jobs : j.at = "stat" /\ j \notin gm'.jobs /\ gm.disk.st # "ok"

\* C24 as stated: a get_relevant_rules call made while the store file is
\* missing or corrupt does not raise and returns zero rules.
C24_Original ==
    [][\A c \in Callers :
          (GetBegins(c) \/ GetEnds(c)) /\ gm.disk.st # "ok" =>
              /\ gm'.call[c].pc # "raised"
              /\ gm'.call[c].pc = "done" => gm'.last.res = << >>]_vars

\* C24: get_relevant_rules never raises when the store file is missing or
\* corrupt.  A check that finds the file missing and a load that cannot read
\* the file leave the cache as it was, so the call returns its selection
\* from the rules loaded before; the cache is empty, and zero rules are
\* served, only when no document was loaded so far (or a load found the
\* file missing).
C24_KeepsPreviousCache ==
    [][/\ \A c \in Callers :
            (GetBegins(c) \/ GetEnds(c)) /\ gm.disk.st # "ok" =>
                /\ gm'.call[c].pc # "raised"
                /\ gm'.call[c].pc = "done" => gm'.last.res \in Served(gm.active)
                /\ GetBegins(c) /\ gm.disk.st = "missing" =>
                      /\ gm'.call[c].pc = "done"
                      /\ gm'.rules = gm.rules
                      /\ gm'.active = gm.active
       /\ LoadFails =>
            /\ gm.loaded => gm'.rules = gm.rules /\ gm'.active = gm.active
            /\ ~ gm.loaded => gm'.rules = << >> /\ gm'.active = << >>]_vars

\* the store file was loaded, then damaged; a call checked it, the reload
\* failed, and the call returned the rule loaded before
C24_Witness ==
    /\ gm.disk.st = "corrupt"
    /\ gm.last.kind = "get"
    /\ gm.last.stat
    /\ gm.mtime # gm.disk.ver
    /\ gm.last.res # << >>
    /\ ~ gm.cancelled


\* C25: whenever a get_relevant_rules call reads the cache to compute its
\* result, the cached active list is exactly the active records of the
\* cached full list (the two come from the same loaded document), also
\* while a reload or a force_reload is under way.
C25_NoHalfUpdatedCache ==
    [][\A c \in Callers :
          GetEnds(c) => gm.active = ActiveRules(gm.rules)]_vars


\* the step is the return of force_reload call c
ForceEnds(c) ==
    /\ gm.call[c].pc = "reload"
    /\ gm.call[c].kind = "force"
    /\ gm'.call[c].pc = "done"
    /\ gm'.cancelled = gm.cancelled

\* C28: force_reload re-reads the store whatever the TTL state and resets
\* the TTL timer: when it returns and the store is readable, the cache holds
\* the rules of the document on disk, and a get_relevant_rules call that
\* begins less than one TTL after that return checks no modification time
\* (the timer is the time of the return, it never runs backwards, and a
\* check is made only one TTL after the timer).
C28_ForceReloadResets ==
    [][/\ \A c \in Callers :
            /\ (gm.call[c].pc = "idle" /\ gm'.call[c].kind = "force") =>
                  \E j \in gm'.jobs : j.owner = c /\ j.at = "queued"
            /\ (ForceEnds(c) /\ gm.disk.st = "ok") =>
                  /\ gm'.rules = DiskRules(gm.disk.ver)
                  /\ gm'.active = ActiveRules(DiskRules(gm.disk.ver))
            /\ GetChecks(c) => gm.clock - gm.check >= CacheTtl
       /\ gm'.check >= gm.check]_vars

\* a caller awaits a _load job that has sampled the modification time and
\* has not finished reading the file
ReadInProgress ==
    \E j \in gm.jobs : j.owner # 0 /\ j.at = "stat"

\* C34: the lock of the cache is not held while the store file is being
\* read, so a get_relevant_rules call that needs no reload can take the lock
\* and return while another caller's reload or force_reload is reading.
C34_LockFreeDuringRead ==
    ReadInProgress =>
        /\ gm.lock = 0
        /\ \A c \in Callers :
              (/\ gm.call[c].pc = "idle"
               /\ \A d \in Callers : d < c => gm.call[d].pc # "idle"
               /\ ~ TtlElapsed(gm.clock, gm.check))
              => ENABLED get_relevant_rules(c, "general")

\* what a call can return from the v-th document
ServedFrom(v) == Served(ActiveRules(DiskRules(v)))

\* C35: a get_relevant_rules call that is made at least one TTL after the
\* previous check, and finds the store file readable, computes its result
\* from the document on disk: from the cached one when the modification time
\* has not changed, else from the document its reload has read (the one on
\* disk when the modification time was taken, or one put there since).
C35_StaleAtMostOneTtl ==
    [][\A c \in Callers :
          (GetEnds(c) /\ gm'.last.stat) =>
              /\ (gm.call[c].pc = "idle" /\ gm.disk.st = "ok") =>
                    gm'.last.res \in ServedFrom(gm.disk.ver)
              /\ \A j \in gm.jobs :
                    (/\ gm.call[c].pc = "reload" /\ j.owner = c
                     /\ j.data # << >> /\ gm.disk.st = "ok") =>
                        \E v \in j.mtime .. gm.disk.ver :
                            gm'.last.res \in ServedFrom(v)]_vars

\* C40: the modification time the cache records is never newer than the
\* document whose rules it holds (_load takes the time before it opens the
\* file), so when the file on disk is readable and is not the document the
\* cache holds, the next modification-time check hands the file to _load.
C40_MtimeNotNewerThanContent ==
    /\ [](gm.rules # << >> => gm.mtime <= gm.rules[1].id)
    /\ [][\A c \in Callers :
            (/\ GetChecks(c)
             /\ gm.disk.st = "ok"
             /\ gm.rules # DiskRules(gm.disk.ver))
            => gm'.call[c].pc = "reload"]_vars


----------------------------------------------------------------------------
(* Properties of the rule selection *)

\* the score-sorted list the token loop runs over
Ranked ==
    LET scored == Scored(ActiveRules(sel.rules), sel.query_type)
        n == IF sel.model_size = "4B" THEN 5 ELSE 7
    IN  SubSeq(scored, 1, IF Len(scored) < n THEN Len(scored) ELSE n)

\* token estimates (len / 4) of the first n rules of q, summed, times four
RECURSIVE CharsOf(_, _)
CharsOf(q, n) ==
    IF n = 0 THEN 0
    ELSE CharsOf(q, n - 1) + (IF "rule" \in DOMAIN q[n] THEN Len(q[n].rule) ELSE 0)

\* C26: the result is a prefix of the score-sorted list whose summed token
\* estimate (characters / 4) is within token_budget, and it ends at the
\* first rule that would exceed the budget; three rules of 40 tokens under
\* a budget of 90 give the first two.
C26_BudgetPrefix ==
    sel.pc = "returned" =>
        /\ Len(sel.out) <= Len(Ranked)
        /\ sel.out = SubSeq(Ranked, 1, Len(sel.out))
        /\ CharsOf(sel.out, Len(sel.out)) <= 4 * sel.token_budget
        /\ Len(sel.out) < Len(Ranked) =>
              CharsOf(Ranked, Len(sel.out) + 1) > 4 * sel.token_budget
        /\ (/\ Len(Ranked) = 3
            /\ \A i \in 1..3 : CharsOf(Ranked, i) = 160 * i
            /\ sel.token_budget = 90) => sel.out = SubSeq(Ranked, 1, 2)

\* three rules of 40 tokens each, a budget of 90: two rules returned
C26_Witness ==
    /\ sel.pc = "returned"
    /\ Len(sel.rules) = 3
    /\ \A i \in 1..3 : Len(sel.rules[i].rule) = 160 /\ sel.rules[i].status = "active"
    /\ sel.token_budget = 90
    /\ Len(sel.out) = 2

\* the score of the claim, in ten-thousandths
ClaimScore(r) ==
    LET conf == IF "confidence" \in DOMAIN r THEN r.confidence ELSE 500
        tags == IF "query_types" \in DOMAIN r THEN r.query_types ELSE <<"general">>
    IN  IF \E i \in DOMAIN tags : tags[i] = sel.query_type THEN 10 * conf
        ELSE IF \E i \in DOMAIN tags : tags[i] = "general" THEN 6 * conf
        ELSE 3 * conf

\* C27: the result holds only active records of the document (never a
\* retired one), at most 5 of them for the small model tier and 7 for the
\* large one, in non-increasing order of score, the score being the
\* confidence if query_type is among the rule's query_types, the confidence
\* times 0.6 if the rule is tagged general, times 0.3 otherwise.
C27_ActiveRankedCapped ==
    sel.pc = "returned" =>
        /\ \A i \in DOMAIN sel.out :
              /\ \E k \in DOMAIN sel.rules : sel.rules[k] = sel.out[i]
              /\ sel.out[i].status = "active"
        /\ Len(sel.out) <= (IF sel.model_size = "4B" THEN 5 ELSE 7)
        /\ \A i, j \in DOMAIN sel.out :
              i < j => ClaimScore(sel.out[i]) >= ClaimScore(sel.out[j])

\* a document with a retired record and more than seven active ones, the
\* large tier: seven rules returned, of different scores
C27_Witness ==
    /\ sel.pc = "returned"
    /\ sel.model_size = "8B"
    /\ Len(ActiveRules(sel.rules)) > 7
    /\ \E k \in DOMAIN sel.rules : sel.rules[k].status = "retired"
    /\ Len(sel.out) = 7
    /\ sel.query_type = "factual"
    /\ ClaimScore(sel.out[1]) > ClaimScore(sel.out[7])


============================================================================
